---------------------------- MODULE Spec2Model ----------------------------
(***************************************************************************)
(* A model of geoloc (src/geoloc.c, src/wordhash.h): the geodesic grid,    *)
(* the dense and sparse matrices, the kernel density deposit, the trainer, *)
(* the model file codec, the two classifiers and the drivers of main.      *)
(*                                                                         *)
(* Numbers.  A C double is modelled as an exact fixed-point integer:       *)
(* matrix values count units of 1/Unit, coordinates count units of 1/Deg   *)
(* of a degree.  Double arithmetic is taken to be exact; the narrowing     *)
(* conversions of the code are modelled as what they do: the (float) cast  *)
(* keeps 24 leading bits (ToFloat), "%lg"/"%g" followed by sscanf keeps 6  *)
(* leading decimal digits (PrintG).  A logarithm is kept as the exact      *)
(* fraction it is the logarithm of (a list of integer factors over a list  *)
(* of integer factors); log is strictly increasing, so comparing the       *)
(* fractions compares the logarithms.                                      *)
(***************************************************************************)
EXTENDS Integers, Sequences, FiniteSets, TLC

(***************************************************************************)
(* Bounds of the model.                                                    *)
(***************************************************************************)
\* the longest training corpus / test file, in lines
MaxLines == 2
\* the reads at the end of the model file whose effects are recorded
MaxEofReads == 2

(***************************************************************************)
(* Fixed-point units.                                                      *)
(***************************************************************************)
Unit == 10^7
Deg  == 10^6

Abs(n) == IF n < 0 THEN -n ELSE n
Sign(n) == IF n < 0 THEN -1 ELSE 1
Min(a, b) == IF a < b THEN a ELSE b
Max(a, b) == IF a > b THEN a ELSE b

\* C integer conversion and division truncate toward zero
TruncDiv(a, b) == Sign(a) * Sign(b) * (Abs(a) \div Abs(b))

\* n rounded to `digits` leading digits in base `base`, ties to even
RECURSIVE RoundLeading(_, _, _, _)
RoundLeading(a, base, limit, p) ==
    IF a \div p < limit
    THEN LET q == a \div p
             r == a % p
             up == (2 * r > p) \/ (2 * r = p /\ q % 2 = 1)
         IN  (IF up THEN q + 1 ELSE q) * p
    ELSE RoundLeading(a, base, limit, p * base)

\* the (float) cast: a 24-bit significand
ToFloat(v) == Sign(v) * RoundLeading(Abs(v), 2, 2^24, 1)

\* gzprintf("%lg") / ("%g") read back by sscanf("%lg"): 6 significant digits
PrintG(v) == Sign(v) * RoundLeading(Abs(v), 10, 10^6, 1)

\* floor(a * Unit / b) for 0 <= a, 0 < b, by long division (no overflow)
RECURSIVE LongDiv(_, _, _, _)
LongDiv(q, r, b, k) ==
    IF k = 0 THEN q
    ELSE LongDiv(q * 10 + (r * 10) \div b, (r * 10) % b, b, k - 1)

FixDiv(a, b) == LongDiv(a \div b, a % b, b, 7)

\* a null pointer: no list, no matrix, no hash
NULL == << >>

(***************************************************************************)
(* The grid (macros of geoloc.c:140-151).  L is g_longranularity.          *)
(***************************************************************************)
NCells(L) == L * (L \div 2)
Cells(L) == 0 .. NCells(L) - 1

XTOMIDLON(X, L) == X * ((360 * Deg) \div L) - 180 * Deg + ((360 * Deg) \div L) \div 2
YTOMIDLAT(Y, L) == Y * ((360 * Deg) \div L) - 90 * Deg + ((360 * Deg) \div L) \div 2

\* (int)(L/360 * (LON + 180)): the quotient in units of 1/1000 degree keeps
\* the product inside 32 bits
LONTOX(LON, L) == TruncDiv(L * ((LON + 180 * Deg) \div 1000), 360 * (Deg \div 1000))
LATTOY(LAT, L) == TruncDiv(L * ((LAT + 90 * Deg) \div 1000), 360 * (Deg \div 1000))

CELLTOX(CELL, L) == CELL % L
CELLTOY(CELL, L) == CELL \div L

LATLONTOCELL(LAT, LON, L) == LATTOY(LAT, L) * L + LONTOX(LON, L)

(***************************************************************************)
(* Dense matrices: functions over the cells.                               *)
(***************************************************************************)
matrix_set(L, value) == [c \in Cells(L) |-> value]
matrix_init(L, prior) == matrix_set(L, prior)
matrix_copy(m) == [c \in DOMAIN m |-> m[c]]

RECURSIVE SumCells(_, _)
SumCells(m, n) == IF n = 0 THEN 0 ELSE m[n - 1] + SumCells(m, n - 1)

\* a normalisation that divides by the number of cells, not by the sum
matrix_normalize_by_cells(m, L) ==
    [c \in DOMAIN m |-> FixDiv(m[c], NCells(L) * Unit)]

matrix_normalize(m, L) ==
    LET sum == SumCells(m, NCells(L))
    IN  [c \in DOMAIN m |-> FixDiv(m[c], sum)]

\* matrix_add(matrix1, matrix2): matrix2 += matrix1; the new matrix2
matrix_add(matrix1, m2) == [c \in DOMAIN m2 |-> m2[c] + matrix1[c]]

(***************************************************************************)
(* Sparse matrices: a sequence of triples closed by the sentinel.          *)
(***************************************************************************)
Triple(x, y, value) == [x |-> x, y |-> y, value |-> value]
Sentinel == Triple(-1, -1, -Unit)

\* the cells in the order of their indices: y outer, x inner
ScanOrder_rows(L) ==
    [k \in 1 .. NCells(L) |-> <<(k - 1) % L, (k - 1) \div L>>]

\* the cells in the order of the loops at geoloc.c:816-817: x outer, y inner
ScanOrder(L) ==
    [k \in 1 .. NCells(L) |->
        LET x == (k - 1) \div (L \div 2)
            y == (k - 1) % (L \div 2)
        IN  <<x, y>>]

RECURSIVE EncodeFrom(_, _, _, _)
EncodeFrom(m, L, order, k) ==
    IF k > Len(order) THEN << >>
    ELSE LET x == order[k][1]
             y == order[k][2]
             rest == EncodeFrom(m, L, order, k + 1)
         IN  IF m[x + y * L] # 0
             THEN <<Triple(x, y, ToFloat(m[x + y * L]))>> \o rest
             ELSE rest

matrix_to_sparsematrix(m, L) ==
    EncodeFrom(m, L, ScanOrder(L), 1) \o <<Sentinel>>

RECURSIVE Scatter(_, _, _, _)
Scatter(m, s, L, i) ==
    IF i > Len(s) \/ s[i].x = -1 THEN m
    ELSE Scatter([m EXCEPT ![s[i].x + s[i].y * L] = s[i].value], s, L, i + 1)

\* a decoder that takes the row stride for the number of rows
sparsematrix_to_matrix_stride(s, L) ==
    Scatter([c \in Cells(L) |-> 0], s, L \div 2, 1)

sparsematrix_to_matrix(s, L) == Scatter([c \in Cells(L) |-> 0], s, L, 1)

(***************************************************************************)
(* Word hashes (wordhash.h), seen through their contract: the words in     *)
(* insertion order, each with its value; occupancy counts the words.       *)
(***************************************************************************)
wordhash_init == [occupancy |-> 0, table |-> << >>]

RECURSIVE WhSlot(_, _, _)
WhSlot(table, word, i) ==
    IF i > Len(table) THEN 0
    ELSE IF table[i].word = word THEN i ELSE WhSlot(table, word, i + 1)

wordhash_find(wh, word) ==
    LET i == WhSlot(wh.table, word, 1)
    IN  IF i = 0 THEN -1 ELSE wh.table[i].value

\* wordhash_insert stores the running value wh->occupancy and returns it
wordhash_insert(wh, word) ==
    [occupancy |-> wh.occupancy + 1,
     table |-> Append(wh.table, [word |-> word, value |-> wh.occupancy])]

wordhash_set_value(wh, word, value) ==
    LET i == WhSlot(wh.table, word, 1)
    IN  IF i = 0
        THEN [occupancy |-> wh.occupancy + 1,
              table |-> Append(wh.table, [word |-> word, value |-> value])]
        ELSE [wh EXCEPT !.table[i].value = value]

wordhash_inc_value(wh, word) ==
    LET currvalue == wordhash_find(wh, word)
    IN  IF currvalue = -1
        THEN wordhash_set_value(wh, word, 1)
        ELSE wordhash_set_value(wh, word, currvalue + 1)

(***************************************************************************)
(* The feature store: wc_list, indexed by the value of the word in         *)
(* global_wh_train.  main calloc's wc_list, so an entry never written is   *)
(* all zero.  A store is [wh, wc_list, wc_list_max].                       *)
(***************************************************************************)
ZeroWordinfo ==
    [coordinate_list |-> NULL, sparsematrix |-> NULL, word |-> "(null)",
     weight |-> 0, count |-> 0]

WcEntry(wc_list, i) == IF i \in DOMAIN wc_list THEN wc_list[i] ELSE ZeroWordinfo

EmptyStore == [wh |-> wordhash_init, wc_list |-> << >>, wc_list_max |-> 0]

Point(lat, lon) == [lat |-> lat, lon |-> lon]

\* wc_list is kept as a function over the indices written so far
WcPut(wc_list, i, info) ==
    [k \in (DOMAIN wc_list) \cup {i} |-> IF k = i THEN info ELSE wc_list[k]]

word_coord_add_word(st, word, lat, lon, storeword) ==
    LET found == wordhash_find(st.wh, word)
        wh1 == IF found = -1 THEN wordhash_insert(st.wh, word) ELSE st.wh
        wordindex == IF found = -1 THEN st.wh.occupancy ELSE found
        max1 == IF found = -1 /\ wordindex > st.wc_list_max
                THEN wordindex ELSE st.wc_list_max
        old == WcEntry(st.wc_list, wordindex)
        e1 == IF found = -1
              THEN [old EXCEPT !.sparsematrix = NULL,
                               !.count = -1,
                               !.word = IF storeword THEN word ELSE old.word]
              ELSE old
        e2 == [e1 EXCEPT !.count = e1.count + 1]
        e3 == IF lat # 0 \/ lon # 0
              THEN [e2 EXCEPT !.coordinate_list =
                        <<Point(ToFloat(lat), ToFloat(lon))>> \o e2.coordinate_list]
              ELSE e2
    IN  [wh |-> wh1, wc_list |-> WcPut(st.wc_list, wordindex, e3), wc_list_max |-> max1]

word_coord_add_sparsematrix(st, word, s) ==
    [st EXCEPT !.wc_list[wordhash_find(st.wh, word)].sparsematrix = s]

word_coord_set_weight(st, word, weight) ==
    [st EXCEPT !.wc_list[wordhash_find(st.wh, word)].weight = weight]

word_coord_get_count(st, word) == st.wc_list[wordhash_find(st.wh, word)].count

word_coord_get_weight(st, word) == st.wc_list[wordhash_find(st.wh, word)].weight

(***************************************************************************)
(* The Gaussian kernel and the two deposits.                               *)
(***************************************************************************)
\* double g_sigma = 3.0, in degrees
g_sigma == 3
\* double g_tweetprior = 1.0; double g_wordprior = 0.01
g_tweetprior == Unit
g_wordprior == Unit \div 100

\* 1/TWOPI in units of 1/Unit
InvTwoPi == 1591549

\* 10^4 * exp(-q4 / 10^4): halve once per ln 2, then the series of exp
ExpNeg4(q4) ==
    IF q4 >= 200000 THEN 0
    ELSE LET k == q4 \div 6931
             r == q4 % 6931
             t2 == (r * r) \div 20000
             t3 == (t2 * r) \div 30000
             t4 == (t3 * r) \div 40000
             t5 == (t4 * r) \div 50000
         IN  (10000 - r + t2 - t3 + t4 - t5) \div 2^k

\* rho is 0.0 at every call (geoloc.c:800, 949, 973, 1208, 1244), which leaves
\* z = (x1-mu1)^2/sigma1^2 + (x2-mu2)^2/sigma2^2 and the factor
\* 1/(TWOPI*sigma1*sigma2); differences are taken in units of 1/100 degree
bivariate_gaussian_pdf(x1, x2, sigma1, sigma2, rho, mu1, mu2) ==
    LET d1 == Abs(x1 - mu1) \div (Deg \div 100)
        d2 == Abs(x2 - mu2) \div (Deg \div 100)
        halfz4 == (d1 * d1) \div (2 * sigma1 * sigma1)
                  + (d2 * d2) \div (2 * sigma2 * sigma2)
    IN  ((InvTwoPi \div (sigma1 * sigma2)) * ExpNeg4(halfz4)) \div 10^4

\* the radius loop of geoloc.c:948-953
RECURSIVE MaxRadiusFrom(_, _, _, _)
MaxRadiusFrom(x, L, sigma1, sigma2) ==
    IF bivariate_gaussian_pdf(x * ((360 * Deg) \div L), 0, sigma1, sigma2, 0, 0, 0)
         < Unit \div 1000
    THEN x
    ELSE MaxRadiusFrom(x + 1, L, sigma1, sigma2)

\* a window that takes in column x0 + maxradius and row y0 + maxradius
KdeWindow_closed(pt, L, maxradius) ==
    {c \in Cells(L) :
        /\ Max(LONTOX(pt.lon, L) - maxradius, 0) <= CELLTOX(c, L)
        /\ CELLTOX(c, L) <= Min(LONTOX(pt.lon, L) + maxradius, L - 1)
        /\ Max(LATTOY(pt.lat, L) - maxradius, 0) <= CELLTOY(c, L)
        /\ CELLTOY(c, L) <= Min(LATTOY(pt.lat, L) + maxradius, L \div 2 - 1)}

\* the window of one point, clipped to the grid (geoloc.c:960-967)
KdeWindow(pt, L, maxradius) ==
    LET minx == Max(LONTOX(pt.lon, L) - maxradius, 0)
        maxx == Min(LONTOX(pt.lon, L) + maxradius, L)
        miny == Max(LATTOY(pt.lat, L) - maxradius, 0)
        maxy == Min(LATTOY(pt.lat, L) + maxradius, L \div 2)
    IN  {c \in Cells(L) : /\ minx <= CELLTOX(c, L) /\ CELLTOX(c, L) < maxx
                          /\ miny <= CELLTOY(c, L) /\ CELLTOY(c, L) < maxy}

RECURSIVE matrix_kde_points(_, _, _, _, _, _)
matrix_kde_points(m, cl, sigma1, sigma2, L, maxradius) ==
    IF cl = << >> THEN m
    ELSE LET pt == Head(cl)
             win == KdeWindow(pt, L, maxradius)
             m1 == [c \in DOMAIN m |->
                      IF c \in win
                      THEN m[c] + bivariate_gaussian_pdf(
                               XTOMIDLON(CELLTOX(c, L), L), YTOMIDLAT(CELLTOY(c, L), L),
                               sigma1, sigma2, 0, pt.lon, pt.lat)
                      ELSE m[c]]
         IN  matrix_kde_points(m1, Tail(cl), sigma1, sigma2, L, maxradius)

matrix_kde_from_coords(m, cl, sigma1, sigma2, L) ==
    matrix_kde_points(m, cl, sigma1, sigma2, L, MaxRadiusFrom(0, L, sigma1, sigma2))

\* the indices matrix_nokde_from_coords writes at (geoloc.c:933-935)
NokdeIndices(cl, L) ==
    {LONTOX(cl[k].lon, L) + LATTOY(cl[k].lat, L) * L : k \in DOMAIN cl}

\* the indices matrix_kde_from_coords writes at (geoloc.c:959-976)
KdeIndices(cl, L, maxradius) ==
    UNION {LET minx == Max(LONTOX(cl[k].lon, L) - maxradius, 0)
               maxx == Min(LONTOX(cl[k].lon, L) + maxradius, L)
               miny == Max(LATTOY(cl[k].lat, L) - maxradius, 0)
               maxy == Min(LATTOY(cl[k].lat, L) + maxradius, L \div 2)
           IN  {x + y * L : x \in minx .. maxx - 1, y \in miny .. maxy - 1}
           : k \in DOMAIN cl}

\* a write at an index that is no cell lands outside the matrix and leaves
\* the matrix as it is
RECURSIVE matrix_nokde_from_coords(_, _, _)
matrix_nokde_from_coords(m, cl, L) ==
    IF cl = << >> THEN m
    ELSE LET pt == Head(cl)
             cell == LONTOX(pt.lon, L) + LATTOY(pt.lat, L) * L
         IN  matrix_nokde_from_coords(IF cell \in DOMAIN m
                                      THEN [m EXCEPT ![cell] = m[cell] + Unit]
                                      ELSE m,
                                      Tail(cl), L)

(***************************************************************************)
(* Centroids.                                                              *)
(***************************************************************************)
\* the indices find_centroids sums at (geoloc.c:903-906)
CentroidIndices(cl, L) ==
    {LONTOX(cl[k].lon, L) + LATTOY(cl[k].lat, L) * L : k \in DOMAIN cl}

RECURSIVE CentroidSums(_, _, _)
CentroidSums(acc, cl, L) ==
    IF cl = << >> THEN acc
    ELSE LET pt == Head(cl)
             cell == LONTOX(pt.lon, L) + LATTOY(pt.lat, L) * L
         IN  CentroidSums(IF cell \in DOMAIN acc
                          THEN [acc EXCEPT ![cell] =
                                   [lats |-> @.lats + pt.lat, lons |-> @.lons + pt.lon,
                                    counts |-> @.counts + 1]]
                          ELSE acc,
                          Tail(cl), L)

find_centroids(cl, L) ==
    LET acc == CentroidSums([c \in Cells(L) |-> [lats |-> 0, lons |-> 0, counts |-> 0]],
                            cl, L)
    IN  [cell \in Cells(L) |->
            IF acc[cell].counts = 0
            THEN Point(YTOMIDLAT(CELLTOY(cell, L), L), XTOMIDLON(CELLTOX(cell, L), L))
            ELSE Point(TruncDiv(acc[cell].lats, acc[cell].counts),
                       TruncDiv(acc[cell].lons, acc[cell].counts))]

(***************************************************************************)
(* Text files.  An input file (corpus, test set) is its lines, each the    *)
(* fields strtok(",\n ") yields, and whether the last line ends with a     *)
(* newline.  A model file is a sequence of lines, each a record.           *)
(***************************************************************************)
\* strtod on a field: the numerals the model's files use; any other field
\* converts nothing and yields 0
strtod(field) ==
    CASE field = "0" -> 0
      [] field = "45" -> 45 * Deg
      [] field = "-46" -> -46 * Deg
      [] field = "-44" -> -44 * Deg
      [] field = "50" -> 50 * Deg
      [] field = "90" -> 90 * Deg
      [] field = "-90" -> -90 * Deg
      [] field = "180" -> 180 * Deg
      [] field = "-180" -> -180 * Deg
      [] OTHER -> 0

\* fgets/gzgets followed by the feof/gzeof test (geoloc.c:452-454, 544-546,
\* 648-650, 712-714): line k is processed unless the read hit the end of the
\* file, which it does past the last line and also on a last line that has
\* no newline
LineProcessed(file, k) ==
    /\ k <= Len(file.lines)
    /\ (k < Len(file.lines) \/ file.nl)

MLine(tag, i1, i2, v, s) == [tag |-> tag, i1 |-> i1, i2 |-> i2, v |-> v, s |-> s]
TagLine(tag) == MLine(tag, 0, 0, 0, "")
TripleLine(x, y, value) == MLine("x y value", x, y, value, "")
PairLine(lat, lon) == MLine("lat lon", lat, lon, 0, "")
\* numelem is 2 without the weight field, 3 with it
WordLine(index, word, numelem, weight) == MLine("#WORD#", index, numelem, weight, word)

\* for (j = 0; sm[j].x != -1; j++) gzprintf(fp, "%i %i %lg\n", ...)
RECURSIVE SparseLines(_, _)
SparseLines(s, j) ==
    IF j > Len(s) \/ s[j].x = -1 THEN << >>
    ELSE <<TripleLine(s[j].x, s[j].y, PrintG(s[j].value))>> \o SparseLines(s, j + 1)

RECURSIVE PointLines(_)
PointLines(cl) ==
    IF cl = << >> THEN << >>
    ELSE <<PairLine(PrintG(Head(cl).lat), PrintG(Head(cl).lon))>> \o PointLines(Tail(cl))

CentroidLines(centroids, L) ==
    [k \in 1 .. NCells(L) |-> PairLine(PrintG(centroids[k - 1].lat),
                                       PrintG(centroids[k - 1].lon))]

(***************************************************************************)
(* The trainer.                                                            *)
(***************************************************************************)
\* one line of training_read: acc is [st, tweetcoords, lat, lon, stop]
RECURSIVE TrainFields(_, _, _)
TrainFields(acc, fields, field_number) ==
    IF field_number > Len(fields) THEN acc
    ELSE LET f == fields[field_number]
             acc1 ==
                 CASE field_number = 1 -> [acc EXCEPT !.lat = strtod(f)]
                   [] field_number = 2 -> [acc EXCEPT !.lon = strtod(f)]
                   [] OTHER ->
                        IF acc.stop = NULL \/ wordhash_find(acc.stop, f) = -1
                        THEN [acc EXCEPT !.st =
                                 word_coord_add_word(acc.st, f, acc.lat, acc.lon, TRUE)]
                        ELSE acc
         IN  TrainFields(acc1, fields, field_number + 1)

training_read_line(acc, fields) ==
    LET acc1 == TrainFields(acc, fields, 1)
    IN  [acc1 EXCEPT !.tweetcoords =
            Append(@, Point(ToFloat(acc1.lat), ToFloat(acc1.lon)))]

RECURSIVE training_read_from(_, _, _)
training_read_from(acc, file, k) ==
    IF ~LineProcessed(file, k) THEN acc
    ELSE training_read_from(training_read_line(acc, file.lines[k]), file, k + 1)

\* the state a training run starts from; lat and lon are read only after
\* the first two fields of a line have set them
TrainStart(stop) ==
    [st |-> EmptyStore, tweetcoords |-> << >>, lat |-> 0, lon |-> 0, stop |-> stop]

training_read(file, stop) == training_read_from(TrainStart(stop), file, 1)

\* read_stopwords: the hash of the lines of the stopword file
RECURSIVE read_stopwords_from(_, _)
read_stopwords_from(wh, words) ==
    IF words = << >> THEN wh
    ELSE read_stopwords_from(wordhash_insert(wh, Head(words)), Tail(words))

read_stopwords(words) == read_stopwords_from(wordhash_init, words)

\* the features the trainer keeps: if (j < g_threshold) continue;
FeatureKept(info, threshold) == Len(info.coordinate_list) >= threshold

\* the dense density of one feature (geoloc.c:1237-1245)
FeatureDensity(cl, nokde, L) ==
    IF nokde
    THEN matrix_nokde_from_coords(matrix_set(L, 0), cl, L)
    ELSE matrix_kde_from_coords(matrix_set(L, 0), cl, g_sigma, g_sigma, L)

\* the loop over the features (geoloc.c:1233-1265): out is [lines, wordmatrix]
RECURSIVE TrainFeatures(_, _, _, _, _, _, _)
TrainFeatures(out, st, i, nokde, nomatrix, threshold, L) ==
    IF i > st.wc_list_max THEN out
    ELSE LET info == WcEntry(st.wc_list, i)
             w == FeatureDensity(info.coordinate_list, nokde, L)
             lines == <<WordLine(i, info.word, 2, 0)>>
                      \o PointLines(info.coordinate_list)
                      \o (IF nomatrix THEN << >>
                          ELSE <<TagLine("#MATRIX#")>>
                               \o SparseLines(matrix_to_sparsematrix(w, L), 1))
                      \o <<TagLine("#END#")>>
             out1 == IF FeatureKept(info, threshold)
                     THEN [lines |-> out.lines \o lines,
                           wordmatrix |-> matrix_add(w, out.wordmatrix)]
                     ELSE out
         IN  TrainFeatures(out1, st, i + 1, nokde, nomatrix, threshold, L)

\* the document prior (geoloc.c:1203-1210)
TweetsMatrix(tweetcoords, nokde, L) ==
    matrix_normalize(
        IF nokde
        THEN matrix_nokde_from_coords(matrix_init(L, g_tweetprior), tweetcoords, L)
        ELSE matrix_kde_from_coords(matrix_init(L, g_tweetprior), tweetcoords,
                                    g_sigma, g_sigma, L),
        L)

\* the indices a density is written at
DensityIndices(cl, nokde, L) ==
    IF nokde THEN NokdeIndices(cl, L)
    ELSE KdeIndices(cl, L, MaxRadiusFrom(0, L, g_sigma, g_sigma))

\* the indices geoloc_train_model derives from the points it holds: for the
\* prior, for the centroids and for the densities of the features it keeps
TrainIndices(st, tweetcoords, nokde, threshold, L) ==
    [prior |-> DensityIndices(tweetcoords, nokde, L),
     centroids |-> CentroidIndices(tweetcoords, L),
     features |->
         UNION {DensityIndices(WcEntry(st.wc_list, i).coordinate_list, nokde, L) :
                i \in {j \in 0 .. st.wc_list_max :
                          FeatureKept(WcEntry(st.wc_list, j), threshold)}}]

\* geoloc_train_model after training_read: the matrices it hands back and
\* the lines it writes
geoloc_train_model(st, tweetcoords, nokde, nomatrix, threshold, L) ==
    LET tm == TweetsMatrix(tweetcoords, nokde, L)
        centroids == find_centroids(tweetcoords, L)
        feat == TrainFeatures([lines |-> << >>, wordmatrix |-> matrix_init(L, 0)],
                              st, 0, nokde, nomatrix, threshold, L)
    IN  [tweetsmatrix |-> tm,
         wordmatrix |-> feat.wordmatrix,
         modelfile |->
             <<MLine("#LONGRANULARITY#", L, 0, 0, ""), TagLine("#TWEETMATRIX#")>>
             \o SparseLines(matrix_to_sparsematrix(tm, L), 1)
             \o <<TagLine("#END#"), TagLine("#CENTROIDS#")>>
             \o CentroidLines(centroids, L)
             \o <<TagLine("#END#")>>
             \o feat.lines
             \o <<TagLine("#END#"), TagLine("#WORDMATRIX#")>>
             \o SparseLines(matrix_to_sparsematrix(feat.wordmatrix, L), 1)
             \o <<TagLine("#END#")>>]

(***************************************************************************)
(* The model reader, geoloc_read_model, one gzgets at a time.  R is what   *)
(* the reader works on: its locals (section is its position in the code,   *)
(* buf the line buffer) and the globals it writes.                         *)
(***************************************************************************)
\* what the sscanf and strncmp calls of the reader make of a line
IsHash(buf) == buf.tag # "x y value" /\ buf.tag # "lat lon"
IsTag(buf, tag) == buf.tag = tag
\* sscanf(buf, "%i %i %lg", ...) == 3
ScansTriple(buf) == buf.tag = "x y value"
\* sscanf(buf, "%lg %lg", ...) == 2: a triple line gives its first two numbers
ScansPair(buf) == buf.tag = "lat lon" \/ buf.tag = "x y value"
PairLat(buf) == IF buf.tag = "lat lon" THEN buf.i1 ELSE buf.i1 * Deg
PairLon(buf) == IF buf.tag = "lat lon" THEN buf.i2 ELSE buf.i2 * Deg
\* numelem = sscanf(buf, "#WORD# %i %s %lf", ...)
ScansWord(buf) == IF buf.tag = "#WORD#" THEN buf.i2 ELSE 0

sparsematrix_create == << >>
sparsematrix_add(smh, x, y, value) == Append(smh, Triple(x, y, ToFloat(value)))
sparsematrix_close(smh) == smh

\* the reader returns 0 after "File error reading model"
InFileErr(R) == [R EXCEPT !.section = "return", !.ret = 0]

\* matrix[x + y*g_longranularity] = value; a cell outside the matrix is not
\* part of the state
StoreCell(matrix, x, y, value, L) ==
    IF x + y * L \in DOMAIN matrix THEN [matrix EXCEPT ![x + y * L] = value]
    ELSE matrix

\* geoloc.c:1016-1017
ScanHeader(R) ==
    IF IsTag(R.buf, "#LONGRANULARITY#")
    THEN [R EXCEPT !.g_longranularity = R.buf.i1, !.section = "tweetmatrix_tag"]
    ELSE InFileErr(R)

\* geoloc.c:1023-1024
ScanTweetmatrixTag(R) ==
    IF IsTag(R.buf, "#TWEETMATRIX#")
    THEN [R EXCEPT !.tweetsmatrix = matrix_init(R.g_longranularity, 0),
                   !.section = "tweetmatrix"]
    ELSE InFileErr(R)

\* geoloc.c:1027-1032
ScanTweetmatrix(R) ==
    IF IsHash(R.buf)
    THEN IF IsTag(R.buf, "#END#") THEN [R EXCEPT !.section = "centroids_tag"]
         ELSE InFileErr(R)
    ELSE IF ScansTriple(R.buf)
    THEN [R EXCEPT !.tweetsmatrix =
             StoreCell(@, R.buf.i1, R.buf.i2, R.buf.v, R.g_longranularity)]
    ELSE InFileErr(R)

\* geoloc.c:1036-1038
ScanCentroidsTag(R) ==
    IF IsTag(R.buf, "#CENTROIDS#")
    THEN [R EXCEPT !.g_centroids = [c \in Cells(R.g_longranularity) |-> Point(0, 0)],
                   !.i = 0, !.section = "centroids"]
    ELSE InFileErr(R)

\* geoloc.c:1040-1049; a write past the last centroid is not part of the state
ScanCentroids(R) ==
    IF IsHash(R.buf)
    THEN IF IsTag(R.buf, "#END#")
         THEN [R EXCEPT !.st.wh = wordhash_init, !.section = "words"]
         ELSE InFileErr(R)
    ELSE IF ScansPair(R.buf)
    THEN IF ~R.record THEN R
         ELSE [R EXCEPT !.g_centroids =
                           IF R.i \in DOMAIN @
                           THEN [@ EXCEPT ![R.i] = Point(PairLat(R.buf), PairLon(R.buf))]
                           ELSE @,
                        !.i = @ + 1]
    ELSE InFileErr(R)

\* geoloc.c:1052-1069
ScanWords(R, iwh) ==
    IF IsTag(R.buf, "#END#") THEN [R EXCEPT !.section = "wordmatrix_tag"]
    ELSE LET numelem == ScansWord(R.buf)
             feature_weight == IF numelem = 2 THEN Unit ELSE R.buf.v
             word == R.buf.s
         IN  IF numelem # 2 /\ numelem # 3 THEN InFileErr(R)
             ELSE IF iwh # NULL /\ wordhash_find(iwh, word) = -1
             THEN [R EXCEPT !.g_wordtypes = @ + 1, !.word = word, !.section = "skip"]
             ELSE [R EXCEPT !.g_wordtypes = @ + 1, !.word = word,
                            !.st = word_coord_set_weight(
                                       word_coord_add_word(@, word, 0, 0, TRUE),
                                       word, feature_weight),
                            !.section = "points"]

\* a skip that ends with the line after the #WORD# line
ScanSkip_nowait(R) == [R EXCEPT !.section = "words"]

\* geoloc.c:1062-1064
ScanSkip(R) ==
    IF IsTag(R.buf, "#END#") THEN [R EXCEPT !.section = "words"] ELSE R

\* geoloc.c:1071-1083
ScanPoints(R) ==
    IF IsTag(R.buf, "#MATRIX#")
    THEN [R EXCEPT !.smh = sparsematrix_create, !.section = "matrix"]
    ELSE IF IsTag(R.buf, "#END#") THEN [R EXCEPT !.section = "words"]
    ELSE IF ScansPair(R.buf)
    THEN IF ~R.record THEN R
         ELSE [R EXCEPT !.st = word_coord_add_word(@, R.word, PairLat(R.buf),
                                                   PairLon(R.buf), FALSE)]
    ELSE InFileErr(R)

\* geoloc.c:1088-1097
ScanMatrix(R) ==
    IF IsTag(R.buf, "#END#")
    THEN [R EXCEPT !.st = word_coord_add_sparsematrix(
                              @, R.word,
                              sparsematrix_close(sparsematrix_add(R.smh, -1, -1, 0))),
                   !.smh = NULL, !.section = "words"]
    ELSE IF ScansTriple(R.buf)
    THEN IF ~R.record THEN R
         ELSE [R EXCEPT !.smh = sparsematrix_add(@, R.buf.i1, R.buf.i2, R.buf.v)]
    ELSE InFileErr(R)

\* geoloc.c:1104-1105
ScanWordmatrixTag(R) ==
    IF IsTag(R.buf, "#WORDMATRIX#")
    THEN [R EXCEPT !.wordmatrix = matrix_init(R.g_longranularity, 0),
                   !.section = "wordmatrix"]
    ELSE InFileErr(R)

\* geoloc.c:1108-1118
ScanWordmatrix(R) ==
    IF IsHash(R.buf) THEN [R EXCEPT !.section = "return", !.ret = 1]
    ELSE IF ScansTriple(R.buf)
    THEN [R EXCEPT !.wordmatrix =
             StoreCell(@, R.buf.i1, R.buf.i2, R.buf.v, R.g_longranularity)]
    ELSE InFileErr(R)

\* what the reader does with the line gzgets left in buf
ScanLine(R, iwh) ==
    CASE R.section = "header" -> ScanHeader(R)
      [] R.section = "tweetmatrix_tag" -> ScanTweetmatrixTag(R)
      [] R.section = "tweetmatrix" -> ScanTweetmatrix(R)
      [] R.section = "centroids_tag" -> ScanCentroidsTag(R)
      [] R.section = "centroids" -> ScanCentroids(R)
      [] R.section = "words" -> ScanWords(R, iwh)
      [] R.section = "skip" -> ScanSkip(R)
      [] R.section = "points" -> ScanPoints(R)
      [] R.section = "matrix" -> ScanMatrix(R)
      [] R.section = "wordmatrix_tag" -> ScanWordmatrixTag(R)
      [] R.section = "wordmatrix" -> ScanWordmatrix(R)

\* geoloc_read_model on a file that lasts until the reader returns: the
\* reader's locals and the globals it leaves, read with g_longranularity L
\* set before and with the filter iwh (NULL for none); the lines lo..hi are
\* scanned in order, the first half before the second
RECURSIVE ReadLines(_, _, _, _, _)
ReadLines(R, file, lo, hi, iwh) ==
    IF R.section = "return" \/ lo > hi THEN R
    ELSE IF lo = hi THEN ScanLine([R EXCEPT !.buf = file[lo], !.fp = lo], iwh)
    ELSE LET mid == (lo + hi) \div 2
             half == ReadLines(R, file, lo, mid, iwh)
         IN  IF half.section = "return" THEN half
             ELSE ReadLines(half, file, mid + 1, hi, iwh)

geoloc_read_model(file, iwh, L) ==
    ReadLines([section |-> "header", fp |-> 0, buf |-> NULL, have |-> FALSE,
               eofreads |-> 0, tweetsmatrix |-> NULL, wordmatrix |-> NULL,
               word |-> "", smh |-> NULL, i |-> 0, ret |-> -1,
               record |-> TRUE, g_longranularity |-> L, g_centroids |-> NULL,
               st |-> EmptyStore, g_wordtypes |-> 0],
              file, 1, Len(file), iwh)

\* the density of a feature at classification time
word_get_matrix(st, wordindex, nokde, L) ==
    IF st.wc_list[wordindex].sparsematrix = NULL
    THEN FeatureDensity(st.wc_list[wordindex].coordinate_list, nokde, L)
    ELSE sparsematrix_to_matrix(st.wc_list[wordindex].sparsematrix, L)

(***************************************************************************)
(* Scores.  The classifiers add logarithms; the model keeps each sum of    *)
(* logarithms as the fraction it is the logarithm of, num and den being    *)
(* the factors of its numerator and denominator, and compares two sums by  *)
(* cross-multiplying in arbitrary precision (limbs to the base 10^3, least *)
(* significant first).                                                     *)
(***************************************************************************)
BigBase == 10^3

RECURSIVE ToBig(_)
ToBig(n) == IF n = 0 THEN << >> ELSE <<n % BigBase>> \o ToBig(n \div BigBase)

RECURSIVE BigTrim(_)
BigTrim(a) ==
    IF a # << >> /\ a[Len(a)] = 0 THEN BigTrim(SubSeq(a, 1, Len(a) - 1)) ELSE a

\* the limbs lo..hi of raw brought below the base, carry coming in from
\* below: the limbs and the carry that goes out; the halves are done one
\* after the other
RECURSIVE BigCarry(_, _, _, _)
BigCarry(raw, lo, hi, carry) ==
    IF lo > hi THEN [limbs |-> << >>, carry |-> carry]
    ELSE IF lo = hi
    THEN [limbs |-> <<(raw[lo] + carry) % BigBase>>,
          carry |-> (raw[lo] + carry) \div BigBase]
    ELSE LET mid == (lo + hi) \div 2
             low == BigCarry(raw, lo, mid, carry)
             high == BigCarry(raw, mid + 1, hi, low.carry)
         IN  [limbs |-> low.limbs \o high.limbs, carry |-> high.carry]

\* the sum of a[i] * b[k + 1 - i] for i in lo..hi
RECURSIVE BigDot(_, _, _, _, _)
BigDot(a, b, k, lo, hi) ==
    IF lo > hi THEN 0
    ELSE IF lo = hi THEN a[lo] * b[k + 1 - lo]
    ELSE BigDot(a, b, k, lo, (lo + hi) \div 2)
         + BigDot(a, b, k, (lo + hi) \div 2 + 1, hi)

BigMul(a, b) ==
    IF a = << >> \/ b = << >> THEN << >>
    ELSE LET n == Len(a) + Len(b) - 1
             raw == [k \in 1..n |->
                        BigDot(a, b, k, Max(1, k + 1 - Len(b)), Min(k, Len(a)))]
             r == BigCarry(raw, 1, n, 0)
         IN  BigTrim(r.limbs \o ToBig(r.carry))

RECURSIVE BigProdFrom(_, _, _)
BigProdFrom(factors, lo, hi) ==
    IF lo > hi THEN <<1>>
    ELSE IF lo = hi THEN ToBig(factors[lo])
    ELSE LET mid == (lo + hi) \div 2
         IN  BigMul(BigProdFrom(factors, lo, mid), BigProdFrom(factors, mid + 1, hi))

BigProd(factors) == BigProdFrom(factors, 1, Len(factors))

\* a and b without leading zeros
BigLess(a, b) ==
    IF Len(a) # Len(b) THEN Len(a) < Len(b)
    ELSE \E i \in DOMAIN a :
             /\ a[i] < b[i]
             /\ \A k \in DOMAIN a : k > i => a[k] = b[k]

Score(num, den) == [num |-> num, den |-> den]
\* log of 0 is -infinity
ScoreIsMinusInf(s) == \E k \in DOMAIN s.num : s.num[k] = 0
ScoreLess(s1, s2) ==
    BigLess(BigProd(s1.num \o s2.den), BigProd(s2.num \o s1.den))

RECURSIVE Repeat(_, _)
Repeat(x, n) == IF n <= 0 THEN << >> ELSE <<x>> \o Repeat(x, n - 1)

(***************************************************************************)
(* The classifiers.  E is what they read: the feature store st, the grid   *)
(* L, g_wordtypes, g_unk and g_nokde; full says that resultmatrix is not   *)
(* NULL.                                                                   *)
(***************************************************************************)
\* the least prior (geoloc.c:288-291, 378-381); the starting values 100000
\* and DBL_MAX exceed every entry of a matrix of the model
RECURSIVE CMinFrom(_, _)
CMinFrom(tweetsmatrix, n) ==
    IF n = 1 THEN tweetsmatrix[0]
    ELSE Min(tweetsmatrix[n - 1], CMinFrom(tweetsmatrix, n - 1))

c_min(tweetsmatrix, L) == CMinFrom(tweetsmatrix, NCells(L))

\* a shortcut that leaves no cell out
Shortcut_off(tweetsmatrix, c, L, full) == FALSE

\* the cells the shortcut leaves out
Shortcut(tweetsmatrix, c, L, full) ==
    tweetsmatrix[c] = c_min(tweetsmatrix, L) /\ ~full

\* g_wordprior * (g_wordtypes + 1.0 + (double)g_unk)
PriorMass(E) == g_wordprior * (E.g_wordtypes + 1 + (IF E.g_unk THEN 1 ELSE 0))

\* the loop over the words of the query (geoloc.c:300-333); feature_weight
\* keeps the value the last feature left in it
RECURSIVE NBWords(_, _, _, _, _, _, _, _)
NBWords(totalmatrix, feature_weight, words, k, tweetsmatrix, wordmatrix, full, E) ==
    IF k > Len(words) THEN totalmatrix
    ELSE LET wordindex == wordhash_find(E.st.wh, words[k])
         IN  IF wordindex = -1 /\ ~E.g_unk
             THEN NBWords(totalmatrix, feature_weight, words, k + 1,
                          tweetsmatrix, wordmatrix, full, E)
             ELSE LET tempwordmatrix ==
                          IF wordindex # -1
                          THEN word_get_matrix(E.st, wordindex, E.g_nokde, E.L)
                          ELSE matrix_init(E.L, 0)
                      fw == IF wordindex # -1
                            THEN word_coord_get_weight(E.st, words[k])
                            ELSE feature_weight
                      total1 ==
                          [c \in Cells(E.L) |->
                              IF Shortcut(tweetsmatrix, c, E.L, full) THEN totalmatrix[c]
                              ELSE Score(Append(totalmatrix[c].num,
                                                tempwordmatrix[c] + g_wordprior),
                                         Append(totalmatrix[c].den,
                                                wordmatrix[c] + PriorMass(E)))]
                  IN  NBWords(IF fw = 0 THEN totalmatrix ELSE total1, fw, words, k + 1,
                              tweetsmatrix, wordmatrix, full, E)

\* an arg max that also takes a cell whose total equals p_max
RECURSIVE NBArgmax_last(_, _, _, _, _, _)
NBArgmax_last(totalmatrix, tweetsmatrix, full, L, c, best) ==
    IF c >= NCells(L) THEN best.index
    ELSE LET better == /\ ~Shortcut(tweetsmatrix, c, L, full)
                       /\ ~ScoreIsMinusInf(totalmatrix[c])
                       /\ (best.score = NULL \/ ~ScoreLess(totalmatrix[c], best.score))
         IN  NBArgmax_last(totalmatrix, tweetsmatrix, full, L, c + 1,
                           IF better THEN [index |-> c, score |-> totalmatrix[c]]
                           ELSE best)

\* the arg max of geoloc.c:334-341: best is [index, score], score NULL while
\* p_max is still -DBL_MAX
RECURSIVE NBArgmax(_, _, _, _, _, _)
NBArgmax(totalmatrix, tweetsmatrix, full, L, c, best) ==
    IF c >= NCells(L) THEN best.index
    ELSE LET better == /\ ~Shortcut(tweetsmatrix, c, L, full)
                       /\ ~ScoreIsMinusInf(totalmatrix[c])
                       /\ (best.score = NULL \/ ScoreLess(best.score, totalmatrix[c]))
         IN  NBArgmax(totalmatrix, tweetsmatrix, full, L, c + 1,
                      IF better THEN [index |-> c, score |-> totalmatrix[c]] ELSE best)

\* a scorer that leaves the logarithm of the prior out of the total
tweet_classify_naivebayes_noprior(words, tweetsmatrix, wordmatrix, full, uninit, E) ==
    LET zero == [c \in Cells(E.L) |-> Score(<<1>>, << >>)]
        totalmatrix == NBWords(zero, uninit, words, 1, tweetsmatrix, wordmatrix, full, E)
    IN  NBArgmax(totalmatrix, tweetsmatrix, full, E.L, 0, [index |-> 0, score |-> NULL])

\* totalmatrix after the loop over the words (geoloc.c:296-333); uninit is
\* what feature_weight holds before the first feature sets it
NBScores(words, tweetsmatrix, wordmatrix, full, uninit, E) ==
    LET logprior == [c \in Cells(E.L) |-> Score(<<tweetsmatrix[c]>>, << >>)]
    IN  NBWords(logprior, uninit, words, 1, tweetsmatrix, wordmatrix, full, E)

tweet_classify_naivebayes(words, tweetsmatrix, wordmatrix, full, uninit, E) ==
    NBArgmax(NBScores(words, tweetsmatrix, wordmatrix, full, uninit, E),
             tweetsmatrix, full, E.L, 0, [index |-> 0, score |-> NULL])

\* the dense matrices of a call (geoloc.c:296, 302, 308, 332, 346): acc counts
\* those allocated and those freed so far, and in i the tokens admitted as
\* features; a feature of weight 0 leaves the loop body before the free
RECURSIVE NBScratch(_, _, _, _, _)
NBScratch(acc, feature_weight, words, k, E) ==
    IF k > Len(words) THEN [acc EXCEPT !.freed = @ + 1]
    ELSE LET wordindex == wordhash_find(E.st.wh, words[k])
             fw == IF wordindex # -1
                   THEN word_coord_get_weight(E.st, words[k])
                   ELSE feature_weight
         IN  IF wordindex = -1 /\ ~E.g_unk
             THEN NBScratch(acc, feature_weight, words, k + 1, E)
             ELSE NBScratch([allocated |-> acc.allocated + 1,
                             freed |-> IF fw = 0 THEN acc.freed ELSE acc.freed + 1,
                             i |-> acc.i + 1],
                            fw, words, k + 1, E)

\* the known words of the query, each once, in the order they first occur
RECURSIVE UniqKnown(_, _, _, _)
UniqKnown(words, k, st, seen) ==
    IF k > Len(words) THEN seen
    ELSE UniqKnown(words, k + 1, st,
                   IF wordhash_find(st.wh, words[k]) # -1
                   THEN wordhash_inc_value(seen, words[k]) ELSE seen)

\* the loop over the known words (geoloc.c:385-395)
RECURSIVE KLWords(_, _, _, _, _, _, _)
KLWords(totalmatrix, seen, i, tweetsmatrix, wordmatrix, full, E) ==
    IF i > Len(seen.table) THEN totalmatrix
    ELSE LET word == seen.table[i].word
             seencount == seen.table[i].value
             knownwords == Len(seen.table)
             tempwordmatrix == word_get_matrix(E.st, wordhash_find(E.st.wh, word),
                                               E.g_nokde, E.L)
             total1 ==
                 [c \in Cells(E.L) |->
                     IF Shortcut(tweetsmatrix, c, E.L, full) THEN totalmatrix[c]
                     ELSE LET c_iw == wordmatrix[c] + PriorMass(E)
                          IN  Score(totalmatrix[c].num \o Repeat(c_iw * seencount, seencount),
                                    totalmatrix[c].den
                                    \o Repeat(knownwords * (tempwordmatrix[c] + g_wordprior),
                                              seencount))]
         IN  KLWords(total1, seen, i + 1, tweetsmatrix, wordmatrix, full, E)

\* the arg min of geoloc.c:396-403; score NULL while p_min is still DBL_MAX
RECURSIVE KLArgmin(_, _, _, _, _, _)
KLArgmin(totalmatrix, tweetsmatrix, full, L, c, best) ==
    IF c >= NCells(L) THEN best.index
    ELSE LET better == /\ ~Shortcut(tweetsmatrix, c, L, full)
                       /\ (best.score = NULL \/ ScoreLess(totalmatrix[c], best.score))
         IN  KLArgmin(totalmatrix, tweetsmatrix, full, L, c + 1,
                      IF better THEN [index |-> c, score |-> totalmatrix[c]] ELSE best)

\* seenwordhash after the loop of geoloc.c:361-370: uniqwords in the order
\* of its table, seencounts in its values, knownwords the length of the table
KLSeen(words, E) == UniqKnown(words, 1, E.st, wordhash_init)

\* totalmatrix after the loop over the known words (geoloc.c:384-395)
KLScores(words, tweetsmatrix, wordmatrix, full, E) ==
    LET zero == [c \in Cells(E.L) |-> Score(<< >>, << >>)]
    IN  KLWords(zero, KLSeen(words, E), 1, tweetsmatrix, wordmatrix, full, E)

tweet_classify_kullbackleibler(words, tweetsmatrix, wordmatrix, full, E) ==
    KLArgmin(KLScores(words, tweetsmatrix, wordmatrix, full, E),
             tweetsmatrix, full, E.L, 0, [index |-> 0, score |-> NULL])

\* the dense matrices of a call (geoloc.c:384, 386, 394, 408-411): totalmatrix
\* and one tempwordmatrix for each unique known word are allocated, each
\* tempwordmatrix is freed, totalmatrix is not
KLScratch(words, E) ==
    [allocated |-> 1 + Len(KLSeen(words, E).table),
     freed |-> Len(KLSeen(words, E).table),
     i |-> Len(KLSeen(words, E).table)]

\* a word_get_matrix that keeps the matrix it built in the record of the word
word_get_matrix_store_cached(st, wordindex, nokde, L) ==
    [st EXCEPT !.wc_list[wordindex].sparsematrix =
        matrix_to_sparsematrix(word_get_matrix(st, wordindex, nokde, L), L)]

\* what a call of word_get_matrix leaves in the feature store: the matrix is
\* built in memory of its own (matrix_init, or the calloc of
\* sparsematrix_to_matrix) and handed to the caller, wc_list is only read
word_get_matrix_store(st, wordindex, nokde, L) == st

\* the feature store after the calls of word_get_matrix of a classifier
RECURSIVE GetMatrices(_, _, _, _, _)
GetMatrices(st, wordindices, k, nokde, L) ==
    IF k > Len(wordindices) THEN st
    ELSE GetMatrices(word_get_matrix_store(st, wordindices[k], nokde, L),
                     wordindices, k + 1, nokde, L)

\* the indices of the words a classifier asks word_get_matrix for: Naive
\* Bayes every known token, KL every known word once
WordIndices(words, E) ==
    LET known == SelectSeq(words, LAMBDA w : wordhash_find(E.st.wh, w) # -1)
    IN  [k \in DOMAIN known |-> wordhash_find(E.st.wh, known[k])]

\* a call of tweet_classify_naivebayes: what it returns and what it leaves
\* behind; resultmatrix[c] = totalmatrix[c] with a result buffer
NBCall(words, tweetsmatrix, wordmatrix, result, uninit, E) ==
    LET full == result # NULL
        totalmatrix == NBScores(words, tweetsmatrix, wordmatrix, full, uninit, E)
        scratch == NBScratch([allocated |-> 1, freed |-> 0, i |-> 0], uninit, words, 1, E)
    IN  [scorer |-> "naivebayes", words |-> words, full |-> full,
         cell |-> tweet_classify_naivebayes(words, tweetsmatrix, wordmatrix, full,
                                            uninit, E),
         totalmatrix |-> totalmatrix,
         seen |-> wordhash_init, knownwords |-> scratch.i,
         allocated |-> scratch.allocated, freed |-> scratch.freed,
         resultmatrix |-> IF full THEN totalmatrix ELSE result,
         st |-> GetMatrices(E.st, WordIndices(words, E), 1, E.g_nokde, E.L)]

\* a call of tweet_classify_kullbackleibler; resultmatrix[c] = -totalmatrix[c]
\* with a result buffer
KLCall(words, tweetsmatrix, wordmatrix, result, E) ==
    LET full == result # NULL
        totalmatrix == KLScores(words, tweetsmatrix, wordmatrix, full, E)
        seen == KLSeen(words, E)
        scratch == KLScratch(words, E)
    IN  [scorer |-> "kullbackleibler", words |-> words, full |-> full,
         cell |-> tweet_classify_kullbackleibler(words, tweetsmatrix, wordmatrix,
                                                 full, E),
         totalmatrix |-> totalmatrix,
         seen |-> seen, knownwords |-> scratch.i,
         allocated |-> scratch.allocated, freed |-> scratch.freed,
         resultmatrix |-> IF full
                          THEN [c \in Cells(E.L) |->
                                   Score(totalmatrix[c].den, totalmatrix[c].num)]
                          ELSE result,
         st |-> GetMatrices(E.st,
                            [k \in DOMAIN seen.table |->
                                wordhash_find(E.st.wh, seen.table[k].word)],
                            1, E.g_nokde, E.L)]

(***************************************************************************)
(* The drivers of the test set.                                            *)
(***************************************************************************)
\* an index of the coordinates and the first word of a record only
IndexFields_three(wh, fields) ==
    LET put(h, word) == IF wordhash_find(h, word) = -1 THEN wordhash_insert(h, word)
                        ELSE h
    IN  IF Len(fields) < 3 THEN wh
        ELSE put(put(put(wh, fields[1]), fields[2]), fields[3])

RECURSIVE IndexFields(_, _)
IndexFields(wh, fields) ==
    IF fields = << >> THEN wh
    ELSE IndexFields(IF wordhash_find(wh, Head(fields)) = -1
                     THEN wordhash_insert(wh, Head(fields)) ELSE wh,
                     Tail(fields))

RECURSIVE IndexLines(_, _, _)
IndexLines(wh, file, k) ==
    IF ~LineProcessed(file, k) THEN wh
    ELSE IndexLines(IndexFields(wh, file.lines[k]), file, k + 1)

\* every field of every line the loop keeps, coordinates included
geoloc_index_words(file) == IndexLines(wordhash_init, file, 1)

\* the words of a record: test_classify takes every field for a word,
\* test_evaluate the fields after lat and lon
QueryWords(m, fields) ==
    IF m = "classify" THEN fields ELSE SubSeq(fields, 3, Len(fields))

\* the estimate for a cell: its centroid or its midpoint
Estimate(cell, centroids, use_centroid, L) ==
    IF use_centroid THEN centroids[cell]
    ELSE Point(YTOMIDLAT(CELLTOY(cell, L), L), XTOMIDLON(CELLTOX(cell, L), L))

\* the rows test_classify prints with --print-matrix: resultmatrix after
\* matrix_normalize_log, kept as the scores it is computed from
MatrixBlock(result) == [matrix |-> result]

\* printf("%lg,%lg\n", lat_estimate, lon_estimate)
CoordinateLine(p) == [lat |-> PrintG(p.lat), lon |-> PrintG(p.lon)]

\* the block test_evaluate prints last: line_number - 1 data points; the
\* distances are kept as the arguments haversine_km was called with
SummaryBlock(n, res) == [datapoints |-> n - 1, distances |-> res]

(***************************************************************************)
(* State.                                                                  *)
(***************************************************************************)
VARIABLES
    g_longranularity,   \* the grid: cells are 360/g_longranularity degrees wide
    opts,               \* the flags main sets from the command line
    mode,               \* "train", "tune", "classify" or "eval"
    pc,                 \* where the process is
    exit,               \* "running", or the way the process ended
    infile,             \* argv[0]: the training corpus or the test set
    modelfile,          \* the lines of the model file on disk
    global_wh_stopwords,
    store,              \* global_wh_train, wc_list and wc_list_max
    g_tweetcoords_head,
    g_centroids,
    g_wordtypes,
    tweetsmatrix,       \* main's tweetsmatrix and wordmatrix: NULL while
    wordmatrix,         \*   nothing has been stored in them
    iwh,                \* the index of the words of the test set
    rd,                 \* the locals of geoloc_read_model
    line_number,        \* the line counter of the loop that reads infile
    latlon,             \* lat and lon of training_read
    out,                \* what has been printed on stdout
    results,            \* the results array of test_evaluate
    tweet_cell,         \* the cell the classifier returned last, -1 before
    trained,            \* the matrices the training run handed back to main
    dense,              \* the codec under test: a dense matrix,
    sparse,             \*   its sparse form (NULL before it is encoded),
    decoded,            \*   and the dense form read back (NULL before)
    resultmatrix,       \* the result buffer of the classifiers, NULL without one
    call,               \* what the last call of a classifier did, NULL before
    indices,            \* the cell indices derived from latlon, NULL before
    hash,               \* a struct wordhash: its table, tablesize and occupancy
    inserted            \* the words inserted into hash, in the order of the calls

codec == <<dense, sparse, decoded>>
files == <<infile, modelfile>>
globals == <<global_wh_stopwords, store, g_tweetcoords_head, g_centroids, g_wordtypes>>
mainlocals == <<tweetsmatrix, wordmatrix, iwh>>
process == <<g_longranularity, opts, mode, pc, exit, globals, mainlocals, rd,
             line_number, latlon, out, results, tweet_cell>>

\* the state of the functions that are run on their own
units == <<resultmatrix, call, indices, hash, inserted>>

vars == <<process, files, trained, codec, units>>

\* stopwords is the stopword file, a list of words, or NULL without -s
Options(nokde, nomatrix, threshold, kl, unk, centroid, stopwords) ==
    [g_nokde |-> nokde, g_nomatrix |-> nomatrix, g_threshold |-> threshold,
     g_kullback_leibler |-> kl, g_unk |-> unk, g_use_centroid |-> centroid,
     stopwords |-> stopwords]

NoOptions == Options(FALSE, FALSE, 1, FALSE, FALSE, FALSE, NULL)

\* the locals of geoloc_read_model before its first gzgets; have says that
\* buf holds a line the reader has not looked at yet, eofreads counts the
\* gzgets calls that found the file at its end
ReaderStart ==
    [section |-> "header", fp |-> 0, buf |-> NULL, have |-> FALSE, eofreads |-> 0,
     tweetsmatrix |-> NULL, wordmatrix |-> NULL, word |-> "", smh |-> NULL,
     i |-> 0, ret |-> -1]

\* a process at the start of main, after the options are parsed
StartProcess(m, L, o) ==
    /\ mode = m
    /\ g_longranularity = L
    /\ opts = o
    /\ exit = "running"
    /\ global_wh_stopwords = NULL
    /\ store = EmptyStore
    /\ g_tweetcoords_head = NULL
    /\ g_centroids = NULL
    /\ g_wordtypes = 0
    /\ tweetsmatrix = NULL
    /\ wordmatrix = NULL
    /\ iwh = NULL
    /\ rd = ReaderStart
    /\ line_number = 1
    /\ latlon = Point(0, 0)
    /\ out = << >>
    /\ results = << >>
    /\ tweet_cell = -1

NoCodec == dense = NULL /\ sparse = NULL /\ decoded = NULL

NoUnits ==
    /\ resultmatrix = NULL
    /\ call = NULL
    /\ indices = NULL
    /\ hash = NULL
    /\ inserted = << >>

(***************************************************************************)
(* The sparse codec on its own: every dense matrix over a small set of     *)
(* values is encoded and decoded again.                                    *)
(***************************************************************************)
Granularities == {2, 4}
\* 0, a value a float holds exactly, and one that needs more than 24 bits
MatrixValues == {0, Unit \div 2, 27272727}

InitSparse ==
    /\ \E L \in Granularities :
           StartProcess("codec", L, NoOptions)
    /\ pc = "codec"
    /\ infile = NULL
    /\ modelfile = NULL
    /\ trained = NULL
    /\ dense \in [Cells(g_longranularity) -> MatrixValues]
    /\ sparse = NULL
    /\ decoded = NULL
    /\ NoUnits

Encode ==
    /\ pc = "codec"
    /\ sparse = NULL
    /\ sparse' = matrix_to_sparsematrix(dense, g_longranularity)
    /\ UNCHANGED <<process, files, trained, dense, decoded, units>>

Decode ==
    /\ pc = "codec"
    /\ sparse # NULL
    /\ decoded = NULL
    /\ decoded' = sparsematrix_to_matrix(sparse, g_longranularity)
    /\ UNCHANGED <<process, files, trained, dense, sparse, units>>

NextSparse == Encode \/ Decode

SpecSparse == InitSparse /\ [][NextSparse]_vars

(***************************************************************************)
(* Input files.                                                            *)
(***************************************************************************)
SeqsUpTo(S, n) == UNION {[1 .. k -> S] : k \in 0 .. n}

\* the files of at most n lines drawn from records; an empty file has no
\* last line to end without a newline
TextFiles(records, n) ==
    {f \in [lines : SeqsUpTo(records, n), nl : BOOLEAN] : f.lines = << >> => f.nl}

(***************************************************************************)
(* A training run (main in MODE_TRAIN), and after it a process that reads  *)
(* the model back without a filter, as main does in MODE_TUNE.             *)
(***************************************************************************)
TrainRecords == {<<"45", "45", "a">>, <<"-46", "-44", "b">>, <<"0", "0", "tok">>}
TrainGranularities == {4}

InitTrain ==
    /\ \E L \in TrainGranularities, nokde \in BOOLEAN, nomatrix \in BOOLEAN,
          threshold \in {0, 1, 2}, stopwords \in {NULL, <<"a">>} :
           StartProcess("train", L,
                        Options(nokde, nomatrix, threshold, FALSE, FALSE, FALSE, stopwords))
    /\ pc = "train"
    /\ infile \in TextFiles(TrainRecords, MaxLines)
    /\ modelfile = NULL
    /\ trained = NULL
    /\ NoCodec
    /\ NoUnits

\* geoloc_train_model up to the first gzgets of training_read
TrainBegin ==
    /\ pc = "train"
    /\ global_wh_stopwords' = IF opts.stopwords # NULL
                              THEN read_stopwords(opts.stopwords) ELSE NULL
    /\ store' = [store EXCEPT !.wh = wordhash_init]
    /\ line_number' = 1
    /\ pc' = "training_read"
    /\ UNCHANGED <<g_longranularity, opts, mode, exit, g_tweetcoords_head, g_centroids,
                   g_wordtypes, mainlocals, rd, latlon, out, results, tweet_cell, files,
                   trained,
                   codec, units>>

\* one turn of the loop of training_read on a line it keeps
TrainLine ==
    /\ pc = "training_read"
    /\ LineProcessed(infile, line_number)
    /\ LET acc == training_read_line(
                      [st |-> store, tweetcoords |-> g_tweetcoords_head,
                       lat |-> latlon.lat, lon |-> latlon.lon,
                       stop |-> global_wh_stopwords],
                      infile.lines[line_number])
       IN  /\ store' = acc.st
           /\ g_tweetcoords_head' = acc.tweetcoords
           /\ latlon' = Point(acc.lat, acc.lon)
    /\ line_number' = line_number + 1
    /\ UNCHANGED <<g_longranularity, opts, mode, pc, exit, global_wh_stopwords,
                   g_centroids, g_wordtypes, mainlocals, rd, out, results, tweet_cell, files,
                   trained, codec, units>>

\* what the rest of geoloc_train_model can come to.  A write at an index
\* that is no cell goes beyond the matrix, and with no word in the store and
\* a threshold of 0 the loop over the features prints the word of wc_list[0],
\* a null pointer: the process is killed, or it goes on and writes the file
TrainOutcomes ==
    LET t == geoloc_train_model(store, g_tweetcoords_head, opts.g_nokde,
                                opts.g_nomatrix, opts.g_threshold, g_longranularity)
        ix == TrainIndices(store, g_tweetcoords_head, opts.g_nokde, opts.g_threshold,
                           g_longranularity)
        wild == \/ \E c \in ix.prior \cup ix.centroids \cup ix.features :
                       c \notin Cells(g_longranularity)
                \/ /\ store.wh.occupancy = 0
                   /\ FeatureKept(WcEntry(store.wc_list, 0), opts.g_threshold)
    IN  {[crash |-> FALSE, indices |-> ix, modelfile |-> t.modelfile,
          tweetsmatrix |-> t.tweetsmatrix, wordmatrix |-> t.wordmatrix,
          trained |-> [tweetsmatrix |-> t.tweetsmatrix, wordmatrix |-> t.wordmatrix]]}
        \cup (IF wild
              THEN {[crash |-> TRUE, indices |-> ix, modelfile |-> << >>,
                     tweetsmatrix |-> tweetsmatrix, wordmatrix |-> wordmatrix,
                     trained |-> NULL]}
              ELSE {})

\* the end of training_read, the rest of geoloc_train_model, and the end of
\* main; g_centroids is freed
TrainWrite ==
    /\ pc = "training_read"
    /\ ~LineProcessed(infile, line_number)
    /\ \E o \in TrainOutcomes :
           /\ indices' = o.indices
           /\ modelfile' = o.modelfile
           /\ tweetsmatrix' = o.tweetsmatrix
           /\ wordmatrix' = o.wordmatrix
           /\ trained' = o.trained
           /\ exit' = IF o.crash THEN "SIGSEGV" ELSE "0"
    /\ g_centroids' = NULL
    /\ pc' = "done"
    /\ UNCHANGED <<g_longranularity, opts, mode, global_wh_stopwords, store,
                   g_tweetcoords_head, g_wordtypes, iwh, rd, line_number, latlon, out,
                   results, tweet_cell, infile, codec, resultmatrix, call, hash,
                   inserted>>

\* a new process, started once the model is written: main in MODE_TUNE up to
\* its call of geoloc_read_model
Reload ==
    /\ mode = "train"
    /\ pc = "done"
    /\ exit = "0"
    /\ mode' = "tune"
    /\ pc' = "read_model"
    /\ exit' = "running"
    /\ global_wh_stopwords' = NULL
    /\ store' = EmptyStore
    /\ g_tweetcoords_head' = NULL
    /\ g_centroids' = NULL
    /\ g_wordtypes' = 0
    /\ tweetsmatrix' = NULL
    /\ wordmatrix' = NULL
    /\ iwh' = NULL
    /\ rd' = ReaderStart
    /\ line_number' = 1
    /\ latlon' = Point(0, 0)
    /\ out' = << >>
    /\ results' = << >>
    /\ tweet_cell' = -1
    /\ UNCHANGED <<g_longranularity, opts, files, trained, codec, units>>

(***************************************************************************)
(* geoloc_read_model as steps of the process.                              *)
(***************************************************************************)
\* gzgets(fp, buf, 1024): at the end of the file buf keeps the line it had
ReaderGets ==
    /\ pc = "read_model"
    /\ rd.section # "return"
    /\ ~rd.have
    /\ rd' = IF rd.fp < Len(modelfile)
             THEN [rd EXCEPT !.fp = @ + 1, !.buf = modelfile[rd.fp + 1], !.have = TRUE]
             ELSE [rd EXCEPT !.eofreads = Min(@ + 1, MaxEofReads), !.have = TRUE]
    /\ UNCHANGED <<g_longranularity, opts, mode, pc, exit, globals, mainlocals,
                   line_number, latlon, out, results, tweet_cell, files, trained, codec, units>>

\* what the reader does with the line: past MaxEofReads reads at the end of
\* the file the model no longer records what a loop appends or counts
ReaderScan ==
    /\ pc = "read_model"
    /\ rd.section # "return"
    /\ rd.have
    /\ LET R == rd @@ [record |-> rd.eofreads < MaxEofReads,
                       g_longranularity |-> g_longranularity,
                       g_centroids |-> g_centroids,
                       st |-> store,
                       g_wordtypes |-> g_wordtypes]
           S == ScanLine(R, iwh)
       IN  /\ rd' = [f \in DOMAIN rd |-> IF f = "have" THEN FALSE ELSE S[f]]
           /\ g_longranularity' = S.g_longranularity
           /\ g_centroids' = S.g_centroids
           /\ store' = S.st
           /\ g_wordtypes' = S.g_wordtypes
    /\ UNCHANGED <<opts, mode, pc, exit, global_wh_stopwords, g_tweetcoords_head,
                   mainlocals, line_number, latlon, out, results, tweet_cell, files,
                   trained, codec, units>>

\* the return of geoloc_read_model: *tm and *wm are set on success only, and
\* main goes on whatever the reader returned
ReaderReturn ==
    /\ pc = "read_model"
    /\ rd.section = "return"
    /\ tweetsmatrix' = IF rd.ret = 1 THEN rd.tweetsmatrix ELSE tweetsmatrix
    /\ wordmatrix' = IF rd.ret = 1 THEN rd.wordmatrix ELSE wordmatrix
    /\ pc' = IF mode = "tune" THEN "tune" ELSE "test"
    /\ line_number' = 1
    /\ UNCHANGED <<g_longranularity, opts, mode, exit, globals, iwh, rd, latlon, out,
                   results, tweet_cell, files, trained, codec, units>>

NextTrain ==
    TrainBegin \/ TrainLine \/ TrainWrite \/ Reload
    \/ ReaderGets \/ ReaderScan \/ ReaderReturn

SpecTrain == InitTrain /\ [][NextTrain]_vars

(***************************************************************************)
(* Training runs on records from the rim of the map: the poles and the     *)
(* meridian of 180 degrees.                                                *)
(***************************************************************************)
GridRecords ==
    {<<"45", "45", "a">>, <<"90", "0", "a">>, <<"0", "180", "a">>,
     <<"-90", "180", "a">>, <<"0", "-180", "a">>}
GridGranularities == {2, 4}

InitGrid ==
    /\ \E L \in GridGranularities, nokde \in BOOLEAN :
           StartProcess("train", L,
                        Options(nokde, FALSE, 1, FALSE, FALSE, FALSE, NULL))
    /\ pc = "train"
    /\ infile \in TextFiles(GridRecords, MaxLines)
    /\ modelfile = NULL
    /\ trained = NULL
    /\ NoCodec
    /\ NoUnits

NextGrid == TrainBegin \/ TrainLine \/ TrainWrite

SpecGrid == InitGrid /\ [][NextGrid]_vars

(***************************************************************************)
(* A test run (main in MODE_CLASSIFY or MODE_EVAL) on a model file a       *)
(* training run wrote, whole or cut short.                                 *)
(***************************************************************************)
TestCorpus ==
    [lines |-> <<(<<"45", "45", "a">>), (<<"-46", "-44", "b">>)>>, nl |-> TRUE]
EmptyCorpus == [lines |-> << >>, nl |-> TRUE]

\* the file geoloc --train writes for a corpus, with threshold 1
TrainedFile(corpus, nokde, nomatrix, L) ==
    LET acc == training_read(corpus, NULL)
    IN  geoloc_train_model(acc.st, acc.tweetcoords, nokde, nomatrix, 1, L).modelfile

ModelSources ==
    {[corpus |-> TestCorpus, nokde |-> FALSE, nomatrix |-> FALSE],
     [corpus |-> TestCorpus, nokde |-> TRUE, nomatrix |-> FALSE],
     [corpus |-> TestCorpus, nokde |-> FALSE, nomatrix |-> TRUE],
     [corpus |-> EmptyCorpus, nokde |-> FALSE, nomatrix |-> FALSE]}

TestRecords == {<<"45", "45", "a">>, <<"50", "50", "zzz">>}

\* a file cut after its first n lines
Prefix(file, n) == SubSeq(file, 1, n)

\* whole model files with every test set and flag; model files cut short
\* with the test sets of at most one line
InitTest ==
    \E src \in ModelSources, m \in {"classify", "eval"}, kl \in BOOLEAN,
       centroid \in BOOLEAN :
        LET whole == TrainedFile(src.corpus, src.nokde, src.nomatrix, 4)
        IN  /\ StartProcess(m, 4, Options(src.nokde, FALSE, 1, kl, FALSE, centroid, NULL))
            /\ pc = "main"
            /\ \/ /\ modelfile = whole
                  /\ infile \in TextFiles(TestRecords, MaxLines)
               \/ /\ ~kl /\ ~centroid
                  /\ modelfile \in {Prefix(whole, n) : n \in 1 .. Len(whole) - 1}
                  /\ infile \in TextFiles(TestRecords, 1)
            /\ trained = NULL
            /\ NoCodec
            /\ NoUnits

\* main up to its call of geoloc_read_model
IndexWords ==
    /\ pc = "main"
    /\ mode \in {"classify", "eval"}
    /\ iwh' = geoloc_index_words(infile)
    /\ pc' = "read_model"
    /\ UNCHANGED <<g_longranularity, opts, mode, exit, globals, tweetsmatrix, wordmatrix,
                   rd, line_number, latlon, out, results, tweet_cell, files, trained, codec, units>>

\* what the classifier can return for a record.  With the matrices main
\* never set (the reader failed) the classifier reads through uninitialised
\* pointers: the process is killed, or some cell comes out.  The
\* feature_weight of tweet_classify_naivebayes is uninitialised too.
ClassifyOutcomes(words) ==
    LET E == [st |-> store, L |-> g_longranularity, g_wordtypes |-> g_wordtypes,
              g_unk |-> opts.g_unk, g_nokde |-> opts.g_nokde]
        wild == [crash |-> FALSE, cell |-> 0, call |-> call,
                 resultmatrix |-> resultmatrix, st |-> store]
    IN  IF tweetsmatrix = NULL \/ wordmatrix = NULL
        THEN {[wild EXCEPT !.crash = TRUE]}
             \cup {[wild EXCEPT !.crash = g_centroids = NULL /\ opts.g_use_centroid,
                                !.cell = c] : c \in Cells(g_longranularity)}
        ELSE IF opts.g_kullback_leibler
        THEN LET r == KLCall(words, tweetsmatrix, wordmatrix, resultmatrix, E)
             IN  {[crash |-> FALSE, cell |-> r.cell,
                   call |-> [f \in DOMAIN r \ {"resultmatrix", "st"} |-> r[f]],
                   resultmatrix |-> r.resultmatrix, st |-> r.st]}
        ELSE {LET r == NBCall(words, tweetsmatrix, wordmatrix, resultmatrix, uninit, E)
              IN  [crash |-> FALSE, cell |-> r.cell,
                   call |-> [f \in DOMAIN r \ {"resultmatrix", "st"} |-> r[f]],
                   resultmatrix |-> r.resultmatrix, st |-> r.st] :
                 uninit \in IF opts.g_unk THEN {0, Unit} ELSE {Unit}}

\* one turn of the loop of test_classify or test_evaluate on a line it keeps
TestLine ==
    /\ pc = "test"
    /\ LineProcessed(infile, line_number)
    /\ LET fields == infile.lines[line_number]
       IN  \E o \in ClassifyOutcomes(QueryWords(mode, fields)) :
               IF o.crash
               THEN /\ exit' = "SIGSEGV"
                    /\ pc' = "done"
                    /\ UNCHANGED <<line_number, latlon, out, results, tweet_cell, store,
                                   call, resultmatrix>>
               ELSE LET e == Estimate(o.cell, g_centroids, opts.g_use_centroid,
                                      g_longranularity)
                        lat == strtod(fields[1])
                        lon == strtod(fields[2])
                    IN  /\ IF mode = "classify"
                           THEN /\ out' = Append(out,
                                                 IF o.resultmatrix # NULL
                                                 THEN MatrixBlock(o.resultmatrix)
                                                 ELSE CoordinateLine(e))
                                /\ UNCHANGED <<latlon, results>>
                           ELSE /\ results' = Append(results,
                                                     [lat1 |-> lat, lon1 |-> lon,
                                                      lat2 |-> e.lat, lon2 |-> e.lon])
                                /\ latlon' = Point(lat, lon)
                                /\ UNCHANGED out
                        /\ tweet_cell' = o.cell
                        /\ store' = o.st
                        /\ call' = o.call
                        /\ resultmatrix' = o.resultmatrix
                        /\ line_number' = line_number + 1
                        /\ UNCHANGED <<pc, exit>>
    /\ UNCHANGED <<g_longranularity, opts, mode, global_wh_stopwords, g_tweetcoords_head,
                   g_centroids, g_wordtypes, mainlocals, rd, files, trained, codec,
                   indices, hash, inserted>>

\* the end of the loop, of the driver and of main, which returns 0
TestEnd ==
    /\ pc = "test"
    /\ ~LineProcessed(infile, line_number)
    /\ out' = IF mode = "eval" THEN Append(out, SummaryBlock(line_number, results))
              ELSE out
    /\ pc' = "done"
    /\ exit' = "0"
    /\ UNCHANGED <<g_longranularity, opts, mode, globals, mainlocals, rd, line_number,
                   latlon, results, tweet_cell, files, trained, codec, units>>

NextTest ==
    IndexWords \/ ReaderGets \/ ReaderScan \/ ReaderReturn \/ TestLine \/ TestEnd

SpecTest == InitTest /\ [][NextTest]_vars

\* the test runs on the model file of TestCorpus cut short, with a test
\* set of one record
InitCut ==
    LET whole == TrainedFile(TestCorpus, FALSE, FALSE, 4)
    IN  /\ \E m \in {"classify", "eval"} : StartProcess(m, 4, NoOptions)
        /\ pc = "main"
        /\ modelfile \in {Prefix(whole, n) : n \in 1 .. Len(whole) - 1}
        /\ infile = [lines |-> <<(<<"45", "45", "a">>)>>, nl |-> TRUE]
        /\ trained = NULL
        /\ NoCodec
        /\ NoUnits

\* main up to the return of geoloc_read_model
NextRead == IndexWords \/ ReaderGets \/ ReaderScan \/ ReaderReturn

\* the process is scheduled as long as it can take a step
SpecReadFair == InitCut /\ [][NextRead]_vars /\ WF_vars(NextRead)

(***************************************************************************)
(* The test drivers on a model the reader has loaded: main after the       *)
(* return of geoloc_read_model, with every flag of the classifiers.        *)
(***************************************************************************)
\* the model file geoloc_write_model leaves once the weight of a feature
\* has been tuned: "#WORD# %i %s %lf" with the weight
WithWeight(file, word, weight) ==
    [k \in DOMAIN file |->
        IF file[k].tag = "#WORD#" /\ file[k].s = word
        THEN WordLine(file[k].i1, word, 3, weight)
        ELSE file[k]]

\* model files of TestCorpus: stored densities, densities rebuilt at
\* classification time by KDE and by counting, and a feature of weight 0;
\* the model file of the empty corpus, whose prior is the same in every cell
QueryModels ==
    {[nokde |-> FALSE, file |-> TrainedFile(EmptyCorpus, FALSE, FALSE, 4)],
     [nokde |-> FALSE, file |-> TrainedFile(TestCorpus, FALSE, FALSE, 4)],
     [nokde |-> FALSE, file |-> TrainedFile(TestCorpus, FALSE, TRUE, 4)],
     [nokde |-> TRUE, file |-> TrainedFile(TestCorpus, TRUE, TRUE, 4)],
     [nokde |-> FALSE,
      file |-> WithWeight(TrainedFile(TestCorpus, FALSE, FALSE, 4), "b", 0)]}

\* records with known and unknown tokens, repeated ones too
QueryRecords ==
    {<<"45", "45", "a">>, <<"45", "45", "a", "b", "a">>, <<"50", "50", "zzz">>,
     <<"50", "50", "zzz", "a">>, <<"-46", "-44", "b", "zzz", "b">>}

\* lines of a query file
QueryLines == 1

InitQuery ==
    \E src \in QueryModels, m \in {"classify", "eval"}, kl \in BOOLEAN,
       unk \in BOOLEAN, print \in BOOLEAN :
        /\ infile \in TextFiles(QueryRecords, QueryLines)
        /\ LET filter == geoloc_index_words(infile)
               R == geoloc_read_model(src.file, filter, 4)
           IN  /\ mode = m
               /\ opts = Options(src.nokde, FALSE, 1, kl, unk, FALSE, NULL)
               /\ modelfile = src.file
               /\ iwh = filter
               /\ g_longranularity = R.g_longranularity
               /\ store = R.st
               /\ g_centroids = R.g_centroids
               /\ g_wordtypes = R.g_wordtypes
               /\ tweetsmatrix = R.tweetsmatrix
               /\ wordmatrix = R.wordmatrix
               /\ rd = [f \in DOMAIN ReaderStart |-> R[f]]
               /\ resultmatrix = IF print /\ m = "classify"
                                 THEN matrix_set(R.g_longranularity, 0) ELSE NULL
        /\ (print => m = "classify")
        /\ pc = "test"
        /\ exit = "running"
        /\ global_wh_stopwords = NULL
        /\ g_tweetcoords_head = NULL
        /\ line_number = 1
        /\ latlon = Point(0, 0)
        /\ out = << >>
        /\ results = << >>
        /\ tweet_cell = -1
        /\ trained = NULL
        /\ NoCodec
        /\ call = NULL
        /\ indices = NULL
        /\ hash = NULL
        /\ inserted = << >>

NextQuery == TestLine \/ TestEnd

SpecQuery == InitQuery /\ [][NextQuery]_vars

(***************************************************************************)
(* The word hash itself (wordhash.h): an open-addressing table with linear *)
(* probing, djb2 as its hash function and a table that doubles when more   *)
(* than half of it is in use. A slot with value -1 is free; the word of a  *)
(* free slot is never read.                                                *)
(***************************************************************************)
\* the bytes of the words the hash is run on
Chars(word) ==
    CASE word = "a" -> <<97>>
      [] word = "b" -> <<98>>
      [] word = "q" -> <<113>>
      [] word = "gz" -> <<103, 122>>
      [] word = "tweet" -> <<116, 119, 101, 101, 116>>

HashWords == {"a", "b", "q", "gz", "tweet"}
TableSizes == {1, 2, 128}
MaxInserts == 4

\* an unsigned int is kept as its two 16-bit halves
Half == 65536

\* hash = ((hash << 5) + hash) + c in unsigned arithmetic
RECURSIVE Djb2(_, _, _)
Djb2(h, chars, k) ==
    IF k > Len(chars) THEN h
    ELSE LET lo == h.lo * 33 + chars[k]
         IN  Djb2([hi |-> (h.hi * 33 + (lo \div Half)) % Half, lo |-> lo % Half],
                  chars, k + 1)

\* 5381 = 0 * 65536 + 5381
wordhash_hashf(word) == Djb2([hi |-> 0, lo |-> 5381], Chars(word), 1)

\* wordhash_hashf(word) % wh->tablesize
HashSlot(word, tablesize) ==
    LET h == wordhash_hashf(word)
    IN  ((h.hi % tablesize) * (Half % tablesize) + (h.lo % tablesize)) % tablesize

\* hash++; if (hash >= wh->tablesize) hash -= wh->tablesize;
NextSlot(slot, tablesize) ==
    IF slot + 1 >= tablesize THEN slot + 1 - tablesize ELSE slot + 1

FreeTable(tablesize) == [i \in 0..(tablesize - 1) |-> [word |-> "", value |-> -1]]

wordhash_table_init(tablesize) ==
    [table |-> FreeTable(tablesize), tablesize |-> tablesize, occupancy |-> 0]

RECURSIVE FindProbe(_, _, _, _)
FindProbe(wh, word, slot, j) ==
    IF j >= wh.tablesize THEN -1
    ELSE IF wh.table[slot].value = -1 THEN -1
    ELSE IF wh.table[slot].word = word THEN wh.table[slot].value
    ELSE FindProbe(wh, word, NextSlot(slot, wh.tablesize), j + 1)

wordhash_table_find(wh, word) ==
    FindProbe(wh, word, HashSlot(word, wh.tablesize), 0)

\* the first free slot from slot on: the for (;;) loops of the inserts
RECURSIVE FreeSlot(_, _)
FreeSlot(wh, slot) ==
    IF wh.table[slot].value = -1 THEN slot
    ELSE FreeSlot(wh, NextSlot(slot, wh.tablesize))

\* a wordhash_insert_with_value that takes the slot of the hash whether it
\* is free or not
wordhash_insert_with_value_noprobe(wh, word, value) ==
    [wh EXCEPT !.table[HashSlot(word, wh.tablesize)] = [word |-> word, value |-> value]]

wordhash_insert_with_value(wh, word, value) ==
    LET slot == FreeSlot(wh, HashSlot(word, wh.tablesize))
    IN  [wh EXCEPT !.table[slot] = [word |-> word, value |-> value]]

\* the second loop of wordhash_rehash over the slots lo..hi of the old table
RECURSIVE RehashFrom(_, _, _, _)
RehashFrom(wh, oldtable, lo, hi) ==
    IF lo > hi THEN wh
    ELSE IF lo = hi
    THEN IF oldtable[lo].value # -1
         THEN wordhash_insert_with_value(wh, oldtable[lo].word, oldtable[lo].value)
         ELSE wh
    ELSE LET mid == (lo + hi) \div 2
             half == RehashFrom(wh, oldtable, lo, mid)
         IN  IF half.tablesize = 0 THEN half
             ELSE RehashFrom(half, oldtable, mid + 1, hi)

\* a rehash that copies every slot to the slot of the same number
wordhash_rehash_copy(wh) ==
    [wh EXCEPT !.table = [i \in 0..(2 * wh.tablesize - 1) |->
                              IF i < wh.tablesize THEN wh.table[i]
                              ELSE [word |-> "", value |-> -1]],
               !.tablesize = 2 * wh.tablesize]

wordhash_rehash(wh) ==
    RehashFrom([wh EXCEPT !.table = FreeTable(2 * wh.tablesize),
                          !.tablesize = 2 * wh.tablesize],
               wh.table, 0, wh.tablesize - 1)

\* the hash after wordhash_insert, and what the call returns
wordhash_table_insert(wh, word) ==
    LET slot == FreeSlot(wh, HashSlot(word, wh.tablesize))
        put == [wh EXCEPT !.table[slot] = [word |-> word, value |-> wh.occupancy],
                          !.occupancy = wh.occupancy + 1]
        after == IF put.occupancy > put.tablesize \div 2
                 THEN wordhash_rehash(put) ELSE put
    IN  [wh |-> after, ret |-> after.occupancy - 1]

\* the loop of wordhash_set_value; NULL when it ends without a slot for the
\* word, where the code calls exit(1)
RECURSIVE SetProbe(_, _, _, _, _)
SetProbe(wh, word, value, slot, j) ==
    IF j >= wh.tablesize THEN NULL
    ELSE IF wh.table[slot].value = -1
    THEN LET put == [wh EXCEPT !.table[slot] = [word |-> word, value |-> value],
                               !.occupancy = wh.occupancy + 1]
         IN  IF put.occupancy > put.tablesize \div 2 THEN wordhash_rehash(put) ELSE put
    ELSE IF wh.table[slot].word = word
    THEN [wh EXCEPT !.table[slot].value = value]
    ELSE SetProbe(wh, word, value, NextSlot(slot, wh.tablesize), j + 1)

wordhash_table_set_value(wh, word, value) ==
    SetProbe(wh, word, value, HashSlot(word, wh.tablesize), 0)

\* the values wordhash_set_value is called with
SetValues == {5}

InitHash ==
    /\ StartProcess("hash", 360, NoOptions)
    /\ pc = "hash"
    /\ infile = NULL
    /\ modelfile = NULL
    /\ trained = NULL
    /\ NoCodec
    /\ resultmatrix = NULL
    /\ call = NULL
    /\ indices = NULL
    /\ \E tablesize \in TableSizes : hash = wordhash_table_init(tablesize)
    /\ inserted = << >>

HashInsert ==
    /\ pc = "hash"
    /\ Len(inserted) < MaxInserts
    /\ \E word \in HashWords :
           LET r == wordhash_table_insert(hash, word)
           IN  /\ hash' = r.wh
               /\ inserted' = Append(inserted, word)
               /\ call' = [fn |-> "wordhash_insert", word |-> word, ret |-> r.ret]
    /\ UNCHANGED <<process, files, trained, codec, resultmatrix, indices>>

HashFind ==
    /\ pc = "hash"
    /\ \E word \in HashWords :
           call' = [fn |-> "wordhash_find", word |-> word,
                    ret |-> wordhash_table_find(hash, word)]
    /\ UNCHANGED <<process, files, trained, codec, resultmatrix, indices, hash,
                   inserted>>

NextHash == HashInsert \/ HashFind

SpecHash == InitHash /\ [][NextHash]_vars

\* wordhash_set_value on any word; inserted takes the word when it is new
HashSetValue ==
    /\ pc = "hash"
    /\ \E word \in HashWords, value \in SetValues :
           LET wh == wordhash_table_set_value(hash, word, value)
               new == wordhash_table_find(hash, word) = -1
           IN  /\ new => Len(inserted) < MaxInserts
               /\ IF wh = NULL
                  THEN /\ exit' = "1"
                       /\ pc' = "done"
                       /\ UNCHANGED <<hash, inserted, call>>
                  ELSE /\ hash' = wh
                       /\ inserted' = IF new THEN Append(inserted, word) ELSE inserted
                       /\ call' = [fn |-> "wordhash_set_value", word |-> word,
                                   ret |-> value]
                       /\ UNCHANGED <<pc, exit>>
    /\ UNCHANGED <<g_longranularity, opts, mode, globals, mainlocals, rd, line_number,
                   latlon, out, results, tweet_cell, files, trained, codec,
                   resultmatrix, indices>>

\* wordhash_insert on a word that is not in the hash
HashInsertNew ==
    /\ HashInsert
    /\ wordhash_table_find(hash, call'.word) = -1

NextGrow == HashInsertNew \/ HashSetValue

SpecGrow == InitHash /\ [][NextGrow]_vars

(***************************************************************************)
(* The KDE deposit on its own: matrix_kde_from_coords on the matrices its  *)
(* callers pass (every cell the tweet prior, every cell 0) with points in  *)
(* the middle of the map and on its rim.                                   *)
(***************************************************************************)
\* a grid and a sigma (-l, -S): a window of one column and one row, no
\* window at all, and a window six cells wide
KdeSettings ==
    {[L |-> 4, sigma |-> 3], [L |-> 4, sigma |-> 30], [L |-> 80, sigma |-> 10]}

KdePoints ==
    {Point(45 * Deg, 45 * Deg), Point(0, -180 * Deg), Point(0, 179 * Deg),
     Point(-90 * Deg, 0), Point(89 * Deg, -1 * Deg), Point(90 * Deg, 180 * Deg)}

MaxPoints == 2

InitKde ==
    /\ \E k \in KdeSettings : StartProcess("kde", k.L, NoOptions)
    /\ pc = "kde"
    /\ infile = NULL
    /\ modelfile = NULL
    /\ trained = NULL
    /\ dense \in {matrix_init(g_longranularity, g_tweetprior),
                  matrix_init(g_longranularity, 0)}
    /\ sparse = NULL
    /\ decoded = NULL
    /\ indices \in SeqsUpTo(KdePoints, MaxPoints)
    /\ resultmatrix = NULL
    /\ call = NULL
    /\ hash = NULL
    /\ inserted = << >>

\* matrix_kde_from_coords(matrix, cl, sigma, sigma, 0.0) on dense and the
\* points of indices
KdeDeposit ==
    /\ pc = "kde"
    /\ call = NULL
    /\ \E k \in KdeSettings :
           /\ k.L = g_longranularity
           /\ call' = [fn |-> "matrix_kde_from_coords", sigma |-> k.sigma,
                       maxradius |-> MaxRadiusFrom(0, k.L, k.sigma, k.sigma)]
           /\ resultmatrix' = matrix_kde_from_coords(dense, indices, k.sigma, k.sigma,
                                                     k.L)
    /\ UNCHANGED <<process, files, trained, codec, indices, hash, inserted>>

NextKde == KdeDeposit

SpecKde == InitKde /\ [][NextKde]_vars

(***************************************************************************)
(* The reader on model files that are whole but were not written by the    *)
(* trainer: a triple names a column or a row the grid of the header does   *)
(* not have, or the centroid table has a row too many.                     *)
(***************************************************************************)
\* the index the reader writes at when it scans the line in R.buf: a cell
\* of tweetsmatrix or wordmatrix (geoloc.c:1030, 1111), a row of g_centroids
\* (1043-1044); << >> for a line that makes it write to none of the three
WriteIndex(R) ==
    IF R.section \in {"tweetmatrix", "wordmatrix"} /\ ~IsHash(R.buf) /\ ScansTriple(R.buf)
    THEN <<R.buf.i1 + R.buf.i2 * R.g_longranularity>>
    ELSE IF R.section = "centroids" /\ ~IsHash(R.buf) /\ ScansPair(R.buf)
    THEN <<R.i>>
    ELSE << >>

\* the indices geoloc_read_model writes at, line by line of the file
ReadWrites(file, filter, L) ==
    [k \in DOMAIN file |->
        LET R == geoloc_read_model(SubSeq(file, 1, k - 1), filter, L)
        IN  IF R.section = "return" THEN << >>
            ELSE WriteIndex([R EXCEPT !.buf = file[k]])]

\* x and y of a triple that replaces one of the file: a column past the
\* last with and without a row that brings the index past the last cell, a
\* column before the first, a row past the last
OffGrid == {<<4, 1>>, <<4, 0>>, <<-1, 0>>, <<0, 2>>}

WithTriple(file, k, x, y) == [file EXCEPT ![k] = TripleLine(x, y, file[k].v)]
WithRow(file, k) == SubSeq(file, 1, k) \o <<file[k]>> \o SubSeq(file, k + 1, Len(file))

LoadFiles ==
    LET whole == TrainedFile(TestCorpus, FALSE, FALSE, 4)
    IN  {whole}
        \cup {WithTriple(whole, k, xy[1], xy[2]) :
                 k \in {j \in DOMAIN whole : whole[j].tag = "x y value"}, xy \in OffGrid}
        \cup {WithRow(whole, k) : k \in {j \in DOMAIN whole : whole[j].tag = "lat lon"}}

InitLoad ==
    /\ \E m \in {"classify", "eval"} : StartProcess(m, 360, NoOptions)
    /\ pc = "main"
    /\ modelfile \in LoadFiles
    /\ infile \in TextFiles(TestRecords, 1)
    /\ trained = NULL
    /\ NoCodec
    /\ NoUnits

\* main from geoloc_index_words to the return of geoloc_read_model.  A write
\* at an index that is no cell of the matrix goes to memory that is not the
\* matrix: the process is killed there, or it goes on
Load ==
    /\ pc = "main"
    /\ mode \in {"classify", "eval"}
    /\ LET filter == geoloc_index_words(infile)
           R == geoloc_read_model(modelfile, filter, g_longranularity)
           writes == ReadWrites(modelfile, filter, g_longranularity)
           wild == \E k \in DOMAIN writes : \E j \in DOMAIN writes[k] :
                       writes[k][j] \notin Cells(R.g_longranularity)
       IN  \E crash \in IF wild THEN BOOLEAN ELSE {FALSE} :
               /\ iwh' = filter
               /\ indices' = writes
               /\ rd' = [f \in DOMAIN ReaderStart |-> R[f]]
               /\ g_longranularity' = R.g_longranularity
               /\ g_centroids' = R.g_centroids
               /\ store' = R.st
               /\ g_wordtypes' = R.g_wordtypes
               /\ tweetsmatrix' = IF R.ret = 1 THEN R.tweetsmatrix ELSE tweetsmatrix
               /\ wordmatrix' = IF R.ret = 1 THEN R.wordmatrix ELSE wordmatrix
               /\ pc' = IF crash THEN "done" ELSE "test"
               /\ exit' = IF crash THEN "SIGSEGV" ELSE exit
    /\ UNCHANGED <<opts, mode, global_wh_stopwords, g_tweetcoords_head, line_number,
                   latlon, out, results, tweet_cell, files, trained, codec,
                   resultmatrix, call, hash, inserted>>

NextLoad == Load

SpecLoad == InitLoad /\ [][NextLoad]_vars

(***************************************************************************)
(* Properties of the sparse codec.                                         *)
(***************************************************************************)
\* C2, as the code has it: decoding the encoding of a dense matrix gives, in
\* every cell, the value of that cell narrowed to a float; a zero cell comes
\* back as zero and a nonzero cell comes back at the same (x, y)
C2_RoundTripToFloat ==
    decoded # NULL =>
        \A c \in Cells(g_longranularity) : decoded[c] = ToFloat(dense[c])

\* a matrix with a zero cell and a cell no float holds has been round-tripped
C2_Witness ==
    /\ decoded # NULL
    /\ \E c \in Cells(g_longranularity) : dense[c] = 0 /\ decoded[c] = 0
    /\ \E c \in Cells(g_longranularity) : dense[c] # ToFloat(dense[c])

\* C2 as stated: decoding the encoding gives back the matrix itself
C2_RoundTripExact ==
    decoded # NULL =>
        \A c \in Cells(g_longranularity) : decoded[c] = dense[c]

(***************************************************************************)
(* Properties of a training run and of reading its model back.             *)
(***************************************************************************)
Written == mode = "train" /\ pc = "done" /\ exit = "0"
ReadBack == mode = "tune" /\ pc = "tune"

\* the reader accepts every file the trainer writes
ReadBackAccepted == ReadBack => rd.ret = 1

\* C1 as stated: the model file the trainer wrote is accepted by the reader
\* without a filter, and the P_c and M_w it rebuilds equal, cell by cell, the
\* trainer's matrices narrowed to a float
C1_RoundTripToFloat ==
    ReadBack =>
        /\ rd.ret = 1
        /\ \A c \in Cells(g_longranularity) :
               /\ tweetsmatrix[c] = ToFloat(trained.tweetsmatrix[c])
               /\ wordmatrix[c] = ToFloat(trained.wordmatrix[c])

\* C3: the document prior the trainer builds sums to 1, to within the one
\* unit each cell's division may lose, and every entry of it is above 0,
\* whatever the corpus, the empty one included
C3_PriorIsDistribution ==
    trained # NULL =>
        LET sum == SumCells(trained.tweetsmatrix, NCells(g_longranularity))
        IN  /\ sum <= Unit
            /\ Unit - sum <= NCells(g_longranularity)
            /\ \A c \in Cells(g_longranularity) : trained.tweetsmatrix[c] > 0

\* a prior built by KDE from a corpus with documents, and not a flat one
C3_Witness ==
    /\ trained # NULL
    /\ ~opts.g_nokde
    /\ g_tweetcoords_head # NULL
    /\ \E c \in Cells(g_longranularity) :
           trained.tweetsmatrix[c] # trained.tweetsmatrix[0]

\* C4 as stated: every feature the trainer writes has a count field of at
\* least the threshold when it is written
C4_CountAtLeastThreshold ==
    Written =>
        \A i \in 0 .. store.wc_list_max :
            FeatureKept(WcEntry(store.wc_list, i), opts.g_threshold)
                => WcEntry(store.wc_list, i).count >= opts.g_threshold

\* the corpus of the single record "0,0,tok"
OriginCorpus == [lines |-> <<(<<"0", "0", "tok">>)>>, nl |-> TRUE]

\* C7 as stated: trained with KDE and threshold 1 on the single record
\* "0,0,tok", the model keeps the feature tok with the one point (0,0), and
\* its density at the cell of (0,0), x = L/2 and y = L/4, is the kernel of a
\* point at (0,0) taken at the midpoint of that cell
C7_OriginFeatureKept ==
    (/\ Written
     /\ infile = OriginCorpus
     /\ ~opts.g_nokde
     /\ opts.g_threshold = 1
     /\ opts.stopwords = NULL)
    => LET L == g_longranularity
           info == WcEntry(store.wc_list, wordhash_find(store.wh, "tok"))
       IN  /\ wordhash_find(store.wh, "tok") # -1
           /\ info.coordinate_list = <<Point(0, 0)>>
           /\ FeatureKept(info, opts.g_threshold)
           /\ \E k \in DOMAIN modelfile :
                  modelfile[k].tag = "#WORD#" /\ modelfile[k].s = "tok"
           /\ FeatureDensity(info.coordinate_list, FALSE, L)[(L \div 2) + (L \div 4) * L]
                  = bivariate_gaussian_pdf(XTOMIDLON(L \div 2, L), YTOMIDLAT(L \div 4, L),
                                           g_sigma, g_sigma, 0, 0, 0)

(***************************************************************************)
(* Properties of a test run.                                               *)
(***************************************************************************)
\* the record the classifier was called on last, as the words it was given
LastQuery == QueryWords(mode, infile.lines[line_number - 1])

\* main holds a model the reader accepted and a record has been classified
Classified ==
    /\ mode \in {"classify", "eval"}
    /\ rd.ret = 1
    /\ tweet_cell # -1
    /\ line_number > 1

\* no word of the record is a feature of the loaded model
NoFeature(words) == \A k \in DOMAIN words : wordhash_find(store.wh, words[k]) = -1

MaxPrior(c) == \A d \in Cells(g_longranularity) : tweetsmatrix[d] <= tweetsmatrix[c]

\* C5: with unk off and no result buffer, Naive Bayes on a record none of
\* whose tokens is a feature of the loaded model returns a cell whose prior
\* is the greatest prior of all cells
C5_NaiveBayesPriorFallback ==
    (Classified /\ ~opts.g_kullback_leibler /\ ~opts.g_unk /\ NoFeature(LastQuery))
        => MaxPrior(tweet_cell)

\* the fallback on a prior with three levels: the cell returned is not the
\* first the shortcut lets through
C5_Witness ==
    /\ Classified /\ ~opts.g_kullback_leibler /\ ~opts.g_unk /\ NoFeature(LastQuery)
    /\ LastQuery # << >>
    /\ \E c \in Cells(g_longranularity) :
           /\ c < tweet_cell
           /\ tweetsmatrix[c] # c_min(tweetsmatrix, g_longranularity)
           /\ tweetsmatrix[c] < tweetsmatrix[tweet_cell]

\* C6 as stated: with unk off and no result buffer, the KL scorer on a
\* record none of whose tokens is a feature of the loaded model returns a
\* cell whose prior is the greatest prior of all cells
C6_KullbackLeiblerPriorFallback ==
    (Classified /\ opts.g_kullback_leibler /\ ~opts.g_unk /\ NoFeature(LastQuery))
        => MaxPrior(tweet_cell)

\* C8 as stated: once geoloc_read_model has returned 0 the run is over: no
\* record is classified or scored, nothing is printed, and the process does
\* not end with status 0
C8_ParseFailureAborts ==
    (mode \in {"classify", "eval"} /\ rd.ret = 0)
        => /\ tweet_cell = -1
           /\ results = << >>
           /\ out = << >>
           /\ exit # "0"

\* C9 as stated: geoloc_read_model returns, with success or with the parse
\* failure, on every model file, also on one that ends inside a section
C9_ReaderReturns == <>(rd.section = "return")

\* C10 as stated: a run on an input file of k lines, whether or not the last
\* one ends with a newline, gives k results: test_classify prints k
\* coordinate lines, test_evaluate scores k records and reports DATA POINTS = k
C10_OneResultPerLine ==
    (mode \in {"classify", "eval"} /\ rd.ret = 1 /\ pc = "done" /\ exit = "0")
        => IF mode = "classify"
           THEN Len(out) = Len(infile.lines)
           ELSE /\ Len(results) = Len(infile.lines)
                /\ out[Len(out)].datapoints = Len(infile.lines)

(***************************************************************************)
(* Properties of a call of a classifier.                                   *)
(***************************************************************************)
\* the tokens of the last call that are features of the loaded model, and
\* those that are not
KnownTokens(words) == SelectSeq(words, LAMBDA w : wordhash_find(store.wh, w) # -1)
UnknownTokens(words) == SelectSeq(words, LAMBDA w : wordhash_find(store.wh, w) = -1)

\* the terms a call has added to the score of cell c: Naive Bayes starts
\* from the logarithm of the prior, KL from 0
Terms(c) ==
    IF call.scorer = "naivebayes" THEN Len(call.totalmatrix[c].num) - 1
    ELSE Len(call.totalmatrix[c].num)

\* the known tokens that contribute a term: Naive Bayes leaves out the
\* features of weight 0
WeightedTokens(words) ==
    IF call.scorer = "naivebayes"
    THEN SelectSeq(KnownTokens(words),
                   LAMBDA w : word_coord_get_weight(store, w) # 0)
    ELSE KnownTokens(words)

\* C11 as stated: both scorers treat the tokens that are no feature alike:
\* with unk off such a token adds nothing to any score, with unk on each of
\* them adds one term to the score of every cell the scorer considers
C11_UnknownFeaturesAlike ==
    call # NULL =>
        \A c \in Cells(g_longranularity) :
            ~Shortcut(tweetsmatrix, c, g_longranularity, call.full) =>
                Terms(c) = Len(WeightedTokens(call.words))
                           + (IF opts.g_unk THEN Len(UnknownTokens(call.words)) ELSE 0)

RECURSIVE SumValues(_)
SumValues(table) ==
    IF table = << >> THEN 0 ELSE Head(table).value + SumValues(Tail(table))

\* C12 as stated: in the KL scorer the normaliser |t| is the number of
\* tokens of the record that are features, repeated ones counted each time,
\* and n of a feature is the number of its occurrences in the record
C12_NormaliserCountsOccurrences ==
    (call # NULL /\ call.scorer = "kullbackleibler") =>
        /\ call.knownwords = Len(KnownTokens(call.words))
        /\ call.knownwords = SumValues(call.seen.table)
        /\ \A k \in DOMAIN call.seen.table :
               call.seen.table[k].value =
                   Len(SelectSeq(call.words, LAMBDA w : w = call.seen.table[k].word))

C20_ScratchReleased == call # NULL => call.allocated = call.freed

(***************************************************************************)
(* Properties of the reader with a filter.                                 *)
(***************************************************************************)
\* the words of a feature store and the record of one of them
StoreWords(st) == {st.wh.table[k].word : k \in DOMAIN st.wh.table}
Feature(st, word) == st.wc_list[wordhash_find(st.wh, word)]

\* what geoloc_read_model leaves when it reads the model file of the run
\* with no filter
Unfiltered == geoloc_read_model(modelfile, NULL, g_longranularity)

\* main holds what the reader left for a model file that the reader with no
\* filter accepts
FilteredRead ==
    /\ mode \in {"classify", "eval"}
    /\ pc = "test"
    /\ Unfiltered.ret = 1

\* C13: the reader with the filter iwh accepts the file and has consumed it
\* as far as the reader with no filter, the store holds exactly the features
\* of the file whose word is in the filter, each with the record the reader
\* with no filter builds (points, count, weight, sparse matrix), and the
\* prior, the centroids, the word mass and g_wordtypes are those of the
\* reader with no filter
C13_FilteredRead ==
    FilteredRead =>
        /\ rd.ret = 1
        /\ rd.fp = Unfiltered.fp
        /\ StoreWords(store)
               = {w \in StoreWords(Unfiltered.st) : wordhash_find(iwh, w) # -1}
        /\ \A w \in StoreWords(store) : Feature(store, w) = Feature(Unfiltered.st, w)
        /\ tweetsmatrix = Unfiltered.tweetsmatrix
        /\ wordmatrix = Unfiltered.wordmatrix
        /\ g_centroids = Unfiltered.g_centroids
        /\ g_wordtypes = Unfiltered.g_wordtypes

\* a read that kept one feature and skipped the block of another, a block
\* with points and a matrix
C13_Witness ==
    /\ FilteredRead
    /\ StoreWords(store) # {}
    /\ \E w \in StoreWords(Unfiltered.st) \ StoreWords(store) :
           /\ Feature(Unfiltered.st, w).coordinate_list # NULL
           /\ Feature(Unfiltered.st, w).sparsematrix # NULL

(***************************************************************************)
(* Properties of the cell indices of the trainer.                          *)
(***************************************************************************)
\* C14 as stated: every index the trainer derives from a point it holds, in
\* matrix_nokde_from_coords, matrix_kde_from_coords and find_centroids, is a
\* cell of the grid, whatever record of the corpus the point came from
C14_IndicesOnGrid ==
    indices # NULL =>
        \A c \in indices.prior \cup indices.centroids \cup indices.features :
            c \in Cells(g_longranularity)

\* the points of cl that LATLONTOCELL maps to cell c
PointsOf(cl, c, L) ==
    {k \in DOMAIN cl : LATLONTOCELL(cl[k].lat, cl[k].lon, L) = c}

RECURSIVE SumOver(_, _, _)
SumOver(cl, ks, coordinate) ==
    IF ks = {} THEN 0
    ELSE LET k == CHOOSE j \in ks : TRUE
         IN  cl[k][coordinate] + SumOver(cl, ks \ {k}, coordinate)

\* C15 as stated: in the table find_centroids builds from the document
\* points, the centroid of a cell that some point maps to is the mean of the
\* points that map to it, the centroid of any other cell is its midpoint, and
\* every centroid maps back to its cell
C15_CentroidInCell ==
    (mode = "train" /\ pc = "done") =>
        LET L == g_longranularity
            cl == g_tweetcoords_head
            centroids == find_centroids(cl, L)
        IN  \A c \in Cells(L) :
                /\ centroids[c] =
                       IF PointsOf(cl, c, L) = {}
                       THEN Point(YTOMIDLAT(CELLTOY(c, L), L), XTOMIDLON(CELLTOX(c, L), L))
                       ELSE Point(TruncDiv(SumOver(cl, PointsOf(cl, c, L), "lat"),
                                           Cardinality(PointsOf(cl, c, L))),
                                  TruncDiv(SumOver(cl, PointsOf(cl, c, L), "lon"),
                                           Cardinality(PointsOf(cl, c, L))))
                /\ LATLONTOCELL(centroids[c].lat, centroids[c].lon, L) = c

(***************************************************************************)
(* Properties of the feature store during training.                        *)
(***************************************************************************)
\* the fields of the line training_read is at that it hands to
\* word_coord_add_word, and the record of a word, all zero before its first call
AddedWords ==
    SelectSeq(SubSeq(infile.lines[line_number], 3, Len(infile.lines[line_number])),
              LAMBDA f : global_wh_stopwords = NULL
                         \/ wordhash_find(global_wh_stopwords, f) = -1)
RecordOf(st, word) ==
    IF wordhash_find(st.wh, word) = -1 THEN ZeroWordinfo ELSE Feature(st, word)

\* C18 as stated: over a line of the corpus, the calls of
\* word_coord_add_word leave a word that was new with the weight 1.0, raise
\* the count of a word by one for each call, and add a point for each call
\* if and only if lat and lon of the line are not both 0
C18_AddWord ==
    [][(mode = "train" /\ pc = "training_read" /\ line_number' = line_number + 1) =>
          \A k \in DOMAIN AddedWords :
              LET word == AddedWords[k]
                  calls == Len(SelectSeq(AddedWords, LAMBDA f : f = word))
                  old == RecordOf(store, word)
                  new == RecordOf(store', word)
              IN  /\ wordhash_find(store'.wh, word) # -1
                  /\ wordhash_find(store.wh, word) = -1 => new.weight = Unit
                  /\ wordhash_find(store.wh, word) # -1 => new.count = old.count + calls
                  /\ Len(new.coordinate_list)
                         = Len(old.coordinate_list)
                           + (IF latlon'.lat # 0 \/ latlon'.lon # 0 THEN calls ELSE 0)]_vars

\* the words of the store whose list of points is as long as the threshold
KeptWords ==
    {w \in StoreWords(store) : FeatureKept(Feature(store, w), opts.g_threshold)}

RECURSIVE SumDensities(_, _)
SumDensities(ws, c) ==
    IF ws = {} THEN 0
    ELSE LET w == CHOOSE v \in ws : TRUE
         IN  FeatureDensity(Feature(store, w).coordinate_list, opts.g_nokde,
                            g_longranularity)[c]
             + SumDensities(ws \ {w}, c)

\* C19 as stated: the #WORD# records of the model the trainer has written
\* are, each once, the features of the store whose list of points is at least
\* as long as the threshold, and the word mass of every cell is the sum of
\* the densities of these features at the cell
C19_WrittenFeatures ==
    Written =>
        /\ \A k \in DOMAIN modelfile :
               modelfile[k].tag = "#WORD#" => modelfile[k].s \in KeptWords
        /\ \A w \in KeptWords :
               Cardinality({k \in DOMAIN modelfile :
                               modelfile[k].tag = "#WORD#" /\ modelfile[k].s = w}) = 1
        /\ \A c \in Cells(g_longranularity) :
               trained.wordmatrix[c] = SumDensities(KeptWords, c)

(***************************************************************************)
(* Properties of the word hash.                                            *)
(***************************************************************************)
Distinct(words) ==
    \A j, k \in DOMAIN words : words[j] = words[k] => j = k

\* the number of words inserted before word, -1 for a word never inserted
InsertedBefore(word) ==
    IF \E k \in DOMAIN inserted : inserted[k] = word
    THEN (CHOOSE k \in DOMAIN inserted : inserted[k] = word) - 1
    ELSE -1

\* C16: after wordhash_insert calls on pairwise distinct words, across the
\* rehashes they caused, wordhash_find returns for every inserted word the
\* number of words inserted before it and -1 for every word never inserted
C16_FindReturnsInsertionIndex ==
    (hash # NULL /\ Distinct(inserted)) =>
        /\ \A word \in HashWords :
               wordhash_table_find(hash, word) = InsertedBefore(word)
        /\ (call # NULL /\ call.fn = "wordhash_find") =>
               call.ret = InsertedBefore(call.word)

\* four distinct words are in a table that was rehashed more than once, two
\* of them share a slot number, and a find has returned for an inserted word
C16_Witness ==
    /\ hash # NULL
    /\ Distinct(inserted)
    /\ Len(inserted) = 4
    /\ hash.tablesize = 8
    /\ \E j, k \in DOMAIN inserted :
           /\ j # k
           /\ HashSlot(inserted[j], hash.tablesize) = HashSlot(inserted[k], hash.tablesize)
    /\ call # NULL
    /\ call.fn = "wordhash_find"
    /\ call.ret = 3

\* C21 as stated: in the Naive Bayes scorer a token is left out exactly when
\* it is a feature whose own weight is 0: every feature of nonzero weight
\* and, in unk mode, every token that is no feature adds its term to every
\* cell the scorer considers, whatever tokens come before it
C21_SkippedIffOwnWeightZero ==
    (call # NULL /\ call.scorer = "naivebayes") =>
        \A c \in Cells(g_longranularity) :
            ~Shortcut(tweetsmatrix, c, g_longranularity, call.full) =>
                Len(call.totalmatrix[c].num) =
                    1 + Len(SelectSeq(call.words,
                                LAMBDA w : IF wordhash_find(store.wh, w) # -1
                                           THEN word_coord_get_weight(store, w) # 0
                                           ELSE opts.g_unk))

\* the cells whose prior is the least prior
MinPrior(c) == tweetsmatrix[c] = c_min(tweetsmatrix, g_longranularity)

\* totalmatrix[c] before the loop over the words: the logarithm of the prior
\* in Naive Bayes, 0 in KL
Unscored(c) ==
    IF call.scorer = "naivebayes" THEN Score(<<tweetsmatrix[c]>>, << >>)
    ELSE Score(<< >>, << >>)

LoadedModel ==
    [st |-> store, L |-> g_longranularity, g_wordtypes |-> g_wordtypes,
     g_unk |-> opts.g_unk, g_nokde |-> opts.g_nokde]

\* C23 as stated: on a model the trainer wrote, the cell a scorer returns
\* for a record without a result buffer is the cell the same scorer returns
\* for it with a result buffer
C23_ShortcutKeepsAnswer ==
    call # NULL =>
        IF call.scorer = "kullbackleibler"
        THEN tweet_classify_kullbackleibler(call.words, tweetsmatrix, wordmatrix,
                                            FALSE, LoadedModel)
             = tweet_classify_kullbackleibler(call.words, tweetsmatrix, wordmatrix,
                                              TRUE, LoadedModel)
        ELSE \A uninit \in IF opts.g_unk THEN {0, Unit} ELSE {Unit} :
                 tweet_classify_naivebayes(call.words, tweetsmatrix, wordmatrix,
                                           FALSE, uninit, LoadedModel)
                 = tweet_classify_naivebayes(call.words, tweetsmatrix, wordmatrix,
                                             TRUE, uninit, LoadedModel)

\* C24: with a result buffer every cell of the buffer is written: in Naive
\* Bayes with the logarithm of the prior of the cell plus its terms, in KL
\* with the negated total; the cell returned is the first cell whose entry
\* in the buffer no other entry exceeds
C24_BufferWrittenArgmax ==
    (call # NULL /\ call.full) =>
        /\ DOMAIN resultmatrix = Cells(g_longranularity)
        /\ \A c \in Cells(g_longranularity) :
               IF call.scorer = "naivebayes"
               THEN /\ resultmatrix[c] = call.totalmatrix[c]
                    /\ Head(resultmatrix[c].num) = tweetsmatrix[c]
                    /\ Len(resultmatrix[c].num) = 1 + Len(resultmatrix[c].den)
               ELSE /\ resultmatrix[c] = Score(call.totalmatrix[c].den,
                                               call.totalmatrix[c].num)
                    /\ Len(resultmatrix[c].num) = Len(resultmatrix[c].den)
        /\ \A d \in Cells(g_longranularity) :
               /\ ~ScoreLess(resultmatrix[call.cell], resultmatrix[d])
               /\ d < call.cell => ScoreLess(resultmatrix[d], resultmatrix[call.cell])

\* a call with a result buffer on a record with a feature has returned a
\* cell other than cell 0, and another cell holds the same score
C24_Witness ==
    /\ call # NULL
    /\ call.full
    /\ KnownTokens(call.words) # << >>
    /\ call.cell > 0
    /\ \E c, d \in Cells(g_longranularity) :
           /\ c < d
           /\ ~ScoreLess(resultmatrix[c], resultmatrix[d])
           /\ ~ScoreLess(resultmatrix[d], resultmatrix[c])

(***************************************************************************)
(* Properties of the KDE deposit.                                          *)
(***************************************************************************)
\* the cells (x, y) with max(0, x0 - r) <= x < min(L, x0 + r) and
\* max(0, y0 - r) <= y < min(L/2, y0 + r) for a point of cell (x0, y0)
InWindow(c, pt, r, L) ==
    LET x == CELLTOX(c, L)
        y == CELLTOY(c, L)
        x0 == LONTOX(pt.lon, L)
        y0 == LATTOY(pt.lat, L)
    IN  /\ Max(0, x0 - r) <= x /\ x < Min(L, x0 + r)
        /\ Max(0, y0 - r) <= y /\ y < Min(L \div 2, y0 + r)

\* the densities of the points k..Len(cl) whose window holds cell c, taken at
\* the middle of the cell
RECURSIVE Deposited(_, _, _, _, _, _)
Deposited(c, cl, k, r, sigma, L) ==
    IF k > Len(cl) THEN 0
    ELSE (IF InWindow(c, cl[k], r, L)
          THEN bivariate_gaussian_pdf(XTOMIDLON(CELLTOX(c, L), L),
                                      YTOMIDLAT(CELLTOY(c, L), L),
                                      sigma, sigma, 0, cl[k].lon, cl[k].lat)
          ELSE 0)
         + Deposited(c, cl, k + 1, r, sigma, L)

\* C25: matrix_kde_from_coords adds to a cell the density of every point
\* whose window, clipped at the edges of the grid, holds the cell, and
\* leaves the cells in no window as they were: nothing crosses the meridian
\* of 180 degrees and the matrix is not normalised
C25_KdeDepositFrame ==
    (pc = "kde" /\ call # NULL) =>
        /\ DOMAIN resultmatrix = Cells(g_longranularity)
        /\ \A c \in Cells(g_longranularity) :
               /\ resultmatrix[c] = dense[c] + Deposited(c, indices, 1, call.maxradius,
                                                         call.sigma, g_longranularity)
               /\ (\A k \in DOMAIN indices :
                       ~InWindow(c, indices[k], call.maxradius, g_longranularity))
                      => resultmatrix[c] = dense[c]

\* a point in the last columns of the grid has left mass up to the last
\* column and none in column 0, its window was cut at the edge, and the
\* cells of the matrix no longer sum to what they did
C25_Witness ==
    /\ pc = "kde" /\ call # NULL
    /\ call.maxradius = 3
    /\ Len(indices) = 2
    /\ \E k \in DOMAIN indices :
           /\ LONTOX(indices[k].lon, g_longranularity) + call.maxradius > g_longranularity
           /\ LET y0 == LATTOY(indices[k].lat, g_longranularity)
              IN  /\ resultmatrix[g_longranularity - 1 + y0 * g_longranularity]
                        > dense[g_longranularity - 1 + y0 * g_longranularity]
                  /\ resultmatrix[y0 * g_longranularity] = dense[y0 * g_longranularity]
    /\ \E c \in Cells(g_longranularity) : resultmatrix[c] > dense[c] + Unit \div 1000

(***************************************************************************)
(* Properties of the sparse encoder.                                       *)
(***************************************************************************)
\* C26: matrix_to_sparsematrix gives one triple for each cell that is not 0
\* and none for a cell that is 0, the triples in strictly increasing order
\* of (x, y) with x first, and then the sentinel (-1, -1, -1.0) once: one
\* entry more than cells that are not 0, and x = -1 in the last entry only
C26_SparseEncodingOrder ==
    sparse # NULL =>
        LET n == Len(sparse) - 1
            L == g_longranularity
        IN  /\ n = Cardinality({c \in Cells(L) : dense[c] # 0})
            /\ sparse[n + 1] = Sentinel
            /\ \A i \in 1 .. n :
                   /\ sparse[i].x \in 0 .. L - 1
                   /\ sparse[i].y \in 0 .. L \div 2 - 1
                   /\ dense[sparse[i].x + sparse[i].y * L] # 0
            /\ \A i, j \in 1 .. n :
                   i < j => \/ sparse[i].x < sparse[j].x
                            \/ sparse[i].x = sparse[j].x /\ sparse[i].y < sparse[j].y
            /\ \A c \in Cells(L) :
                   dense[c] # 0 =>
                       \E i \in 1 .. n : sparse[i].x = CELLTOX(c, L)
                                          /\ sparse[i].y = CELLTOY(c, L)

\* a matrix with a zero cell has been encoded, and two of its triples stand
\* in the other order than the indices of their cells
C26_Witness ==
    /\ sparse # NULL
    /\ \E c \in Cells(g_longranularity) : dense[c] = 0
    /\ \E i, j \in 1 .. Len(sparse) - 1 :
           /\ i < j
           /\ sparse[i].x + sparse[i].y * g_longranularity
                  > sparse[j].x + sparse[j].y * g_longranularity

(***************************************************************************)
(* Properties of the growth of the word hash.                              *)
(***************************************************************************)
\* a step that has stored a word the hash did not hold
NewKey == hash # NULL /\ hash'.occupancy = hash.occupancy + 1

\* every word the hash held is still found with the value it had, but for
\* the word of the call
OthersKept ==
    \A word \in HashWords :
        (wordhash_table_find(hash, word) # -1 /\ word # call'.word) =>
            wordhash_table_find(hash', word) = wordhash_table_find(hash, word)

OffGridTriples ==
    {k \in DOMAIN modelfile :
        /\ indices[k] # << >>
        /\ modelfile[k].tag = "x y value"
        /\ \/ modelfile[k].i1 \notin 0 .. g_longranularity - 1
           \/ modelfile[k].i2 \notin 0 .. g_longranularity \div 2 - 1}

\* C28 as stated: every write of geoloc_read_model into the tweet matrix,
\* the word matrix and the centroid table is at an index from 0 to N - 1,
\* N the number of cells of the grid the header of the file gives; a file
\* with a triple off the grid or with more than N centroid rows is rejected
C28_ReaderWritesOnGrid ==
    (pc # "main" /\ indices # NULL) =>
        /\ \A k \in DOMAIN indices : \A j \in DOMAIN indices[k] :
               indices[k][j] \in Cells(g_longranularity)
        /\ OffGridTriples # {} => rd.ret = 0

(***************************************************************************)
(* Properties of the filtered load.                                        *)
(***************************************************************************)
\* what geoloc_read_model leaves when it is called without a filter
Unfiltered_load == geoloc_read_model(modelfile, NULL, g_longranularity)

UnfilteredModel ==
    [st |-> Unfiltered_load.st, L |-> Unfiltered_load.g_longranularity,
     g_wordtypes |-> Unfiltered_load.g_wordtypes,
     g_unk |-> opts.g_unk, g_nokde |-> opts.g_nokde]

\* C29: the cell a scorer returns for a record of the query file on the
\* model loaded through the filter of the words of that file is the cell it
\* returns for the record on the model loaded without a filter, in Naive
\* Bayes and in KL, with a result buffer and without
C29_FilteredLoadTransparent ==
    (call # NULL /\ rd.ret = 1) =>
        /\ Unfiltered_load.ret = 1
        /\ IF call.scorer = "kullbackleibler"
           THEN call.cell = tweet_classify_kullbackleibler(
                                call.words, Unfiltered_load.tweetsmatrix,
                                Unfiltered_load.wordmatrix, call.full, UnfilteredModel)
           ELSE \A uninit \in IF opts.g_unk THEN {0, Unit} ELSE {Unit} :
                    tweet_classify_naivebayes(call.words, tweetsmatrix, wordmatrix,
                                              call.full, uninit, LoadedModel)
                    = tweet_classify_naivebayes(
                          call.words, Unfiltered_load.tweetsmatrix,
                          Unfiltered_load.wordmatrix, call.full, uninit, UnfilteredModel)

\* a record with a feature has been classified on a model that was loaded
\* without one of the features of the file, and the cell returned is not the
\* cell a record without features gets
C29_Witness ==
    /\ call # NULL /\ rd.ret = 1
    /\ KnownTokens(call.words) # << >>
    /\ store.wh.occupancy < Unfiltered_load.st.wh.occupancy
    /\ call.cell # (IF call.scorer = "kullbackleibler"
                    THEN tweet_classify_kullbackleibler(
                             << >>, tweetsmatrix, wordmatrix, call.full, LoadedModel)
                    ELSE tweet_classify_naivebayes(
                             << >>, tweetsmatrix, wordmatrix, call.full, Unit,
                             LoadedModel))

====
